---- MODULE Spec2Model ----
(***************************************************************************)
(* HouseDCC: the PiDCC transport (housedcc_pidcc.c), the fleet registry    *)
(* and encoder (housedcc_fleet.c) and the service main loop (housedcc.c).  *)
(*                                                                         *)
(* C strings are TLA+ strings, C characters are one-character strings,     *)
(* the NUL character is the string "NUL".  C arrays are sequences: the C   *)
(* index i is the TLA+ index i+1.  A line sent to the worker is a record   *)
(* [cmd, a, b] holding the three fields that snprintf formats.             *)
(***************************************************************************)
EXTENDS Integers, Sequences, FiniteSets, TLC

VARIABLES
    now,                  \* the wall clock read by time(0), in seconds
    PiDccProcess,         \* housedcc_pidcc.c:96
    PiDccTransmit,        \* housedcc_pidcc.c:97
    PiDccListen,          \* housedcc_pidcc.c:98
    PiDccState,           \* housedcc_pidcc.c:100
    PiDccStateDeadline,   \* housedcc_pidcc.c:101
    GpioPinA,             \* housedcc_pidcc.c:107
    GpioPinB,             \* housedcc_pidcc.c:108
    PiDccBuffer,          \* housedcc_pidcc.c:111, the bytes [0, Producer)
    PiDccBufferConsumer,  \* housedcc_pidcc.c:112
    PiDccBufferProducer,  \* housedcc_pidcc.c:113
    openfds,              \* descriptors the service process holds open
    running,              \* child processes that run
    zombies,              \* child processes that exited and were not reaped
    Models,               \* housedcc_fleet.c:148, the slots [0, ModelsCount)
    ModelsAllocated,      \* housedcc_fleet.c:150
    Vehicles,             \* housedcc_fleet.c:152, the slots [0, VehiclesCount)
    VehiclesAllocated,    \* housedcc_fleet.c:154
    CharIsSigned,         \* the build: whether plain char is signed
    stream,               \* history: the bytes read from the worker so far
    decoded,              \* history: the lines handed to the decoder so far
    accepted,             \* history: the commands that returned success so far
    sent,                 \* history: the lines written so far
    worker,               \* history: whether the worker launched last replaces
                          \* one reaped with pins configured, and whether a
                          \* pin line was written to it
    DccLatest,            \* housedcc.c:64
    called,               \* the last operation called, with its inputs
    returned,             \* what it returned
    written               \* what it wrote, to which descriptor

pidccVars == <<PiDccState, PiDccStateDeadline, GpioPinA, GpioPinB>>
bufferVars == <<PiDccBuffer, PiDccBufferConsumer, PiDccBufferProducer>>
processVars == <<PiDccProcess, PiDccTransmit, PiDccListen, openfds, running, zombies>>
fleetVars == <<Models, ModelsAllocated, Vehicles, VehiclesAllocated, CharIsSigned>>
historyVars == <<stream, decoded, accepted, sent>>
callVars == <<called, returned, written>>
vars == <<now, pidccVars, bufferVars, processVars, fleetVars, historyVars, worker,
          DccLatest, callVars>>

----
\* Bounds of the model.

\* The clock stops advancing at MaxTime.
MaxTime == 6
\* Descriptors are numbered below FdLimit (the process's descriptor limit).
FdLimit == 9
\* The worker's byte stream followed by the framing specification.
MaxStream == 5
\* The changes of DccLatest followed by the web specification.
MaxChanges == 2
\* The accepted commands followed by the ordering specification.
MaxSent == 3

\* The first descriptor pipe() can return: 0, 1 and 2 are reserved.
FirstFd == 3

NUL == "NUL"
PiDccBufferSize == 1024
PiDccBufferMargin == 128

----
\* C integer operators.

abs(x) == IF x < 0 THEN 0 - x ELSE x

RECURSIVE BitAnd(_, _)
\* x & y for x, y >= 0.
BitAnd(x, y) ==
    IF x = 0 \/ y = 0 THEN 0
    ELSE ((x % 2) * (y % 2)) + 2 * BitAnd(x \div 2, y \div 2)

RECURSIVE BitOr(_, _)
\* x | y for x, y >= 0.
BitOr(x, y) ==
    IF x = 0 THEN y
    ELSE IF y = 0 THEN x
    ELSE (IF (x % 2) + (y % 2) > 0 THEN 1 ELSE 0) + 2 * BitOr(x \div 2, y \div 2)

\* x & m for a mask m = 2^k - 1 and any int x in two's complement.
LowBits(x, m) == x % (m + 1)

Min(S) == CHOOSE x \in S : \A y \in S : x <= y

----
\* housedcc_pidcc.c: sending.

housedcc_pidcc_enabled == (GpioPinA > 0) \/ (GpioPinB > 0)

\* The outcome w of write(2) is the environment's: "ok" the line was
\* written, "fail" write returned <= 0.
WriteOutcomes == {"ok", "fail"}

NoOutput == [ret |-> 0, out |-> <<>>]

\* "short": write returned more than 0 and less than the length of the line.
WriteResults == WriteOutcomes \cup {"short"}

\* The head of a line, cut before its newline.
ShortLine(text) == [cmd |-> "short", line |-> text]

\* A write that would put the line twice in the pipe: OrderKept tells it
\* from the write of the code.
housedcc_pidcc_write_twice(text, w) ==
    IF ~housedcc_pidcc_enabled THEN NoOutput
    ELSE IF w = "fail" THEN NoOutput
    ELSE [ret |-> 1, out |-> <<[fd |-> PiDccTransmit, text |-> text],
                               [fd |-> PiDccTransmit, text |-> text]>>]

housedcc_pidcc_write(text, w) ==
    IF ~housedcc_pidcc_enabled THEN NoOutput
    ELSE IF w = "fail" THEN NoOutput
    ELSE IF w = "short"
    THEN [ret |-> 1, out |-> <<[fd |-> PiDccTransmit, text |-> ShortLine(text)]>>]
    ELSE [ret |-> 1, out |-> <<[fd |-> PiDccTransmit, text |-> text]>>]

\* What housedcc_pidcc_config sends once the pins are a and b.
housedcc_pidcc_config_write(a, b, w) ==
    IF ~((a > 0) \/ (b > 0)) THEN <<>>
    ELSE IF w = "fail" THEN <<>>
    ELSE <<[fd |-> PiDccTransmit, text |-> [cmd |-> "pin", a |-> a, b |-> b]]>>

\* The table with the code of step 28 written 0x0f for 0x1f: it is the code
\* of step 27, so that MoveEncoding tells the two tables apart.
speed2cssss_0f ==
    <<0, 2, 18, 3, 19, 4, 20, 5, 21, 6, 22, 7, 23, 8, 24, 9, 25, 10, 26, 11,
      27, 12, 28, 13, 29, 14, 30, 15, 15>>

speed2cssss ==
    <<0, 2, 18, 3, 19, 4, 20, 5, 21, 6, 22, 7, 23, 8, 24, 9, 25, 10, 26, 11,
      27, 12, 28, 13, 29, 14, 30, 15, 31>>

\* A gate that would also refuse commands while Busy: QueueFullGatesCommands
\* tells it from the gate of the code.
PiDccQueueFullOrBusy == PiDccState \in {"*", "%"}

PiDccQueueFull == PiDccState = "*"

\* An encoder that would put the speed step itself in the speed field:
\* MoveNeverEmergency tells it from the encoder of the code.
move_byte_plain(speed) == 64 + (IF speed > 0 THEN 32 ELSE 0) + abs(speed)

move_byte(speed) ==
    64 + (IF speed > 0 THEN 32 ELSE 0) + LowBits(speed2cssss[abs(speed) + 1], 31)

housedcc_pidcc_move(address, speed, w) ==
    IF (address <= 0) \/ (address >= 128) THEN NoOutput
    ELSE IF PiDccQueueFull THEN NoOutput
    ELSE IF abs(speed) > 28 THEN NoOutput
    ELSE housedcc_pidcc_write(
             [cmd |-> "send", a |-> LowBits(address, 127), b |-> move_byte(speed)], w)

\* A stop gated by readiness like the other commands: StopNeverGated tells
\* it from the stop of the code.
stop_gated(address) == (address < 0) \/ (address >= 128) \/ PiDccQueueFull

stop_unsupported(address) == (address < 0) \/ (address >= 128)

housedcc_pidcc_stop(address, emergency, w) ==
    IF stop_unsupported(address) THEN NoOutput
    ELSE housedcc_pidcc_write(
             [cmd |-> "send", a |-> LowBits(address, 127),
              b |-> 64 + (IF emergency # 0 THEN 1 ELSE 0)], w)

housedcc_pidcc_function(address, instruction, w) ==
    IF address >= 128 THEN NoOutput
    ELSE IF PiDccQueueFull THEN NoOutput
    ELSE housedcc_pidcc_write(
             [cmd |-> "send", a |-> LowBits(address, 127), b |-> instruction], w)

\* (address & 0x1c0) >> 2, then ^ 0.
accessory_high(address) == (LowBits(address, 511) - LowBits(address, 63)) \div 4

housedcc_pidcc_accessory(address, device, value, w) ==
    IF address >= 512 THEN NoOutput
    ELSE IF PiDccQueueFull THEN NoOutput
    ELSE housedcc_pidcc_write(
             [cmd |-> "send",
              a |-> 128 + LowBits(address, 63),
              b |-> 128 + accessory_high(address)
                        + (IF value # 0 THEN 8 ELSE 0) + LowBits(device, 15)], w)

----
\* housedcc_pidcc.c: receiving.

\* The C string that starts at index from of buf (up to the first NUL).
CString(buf, from) ==
    LET ends == {j \in from .. Len(buf) - 1 : buf[j + 1] = NUL}
    IN IF from >= Len(buf) THEN <<>>
       ELSE IF ends = {} THEN SubSeq(buf, from + 1, Len(buf))
       ELSE SubSeq(buf, from + 1, Min(ends))

\* The state and deadline after decoding line, time(0) being t.
\* A decoder that would take every first character for the readiness:
\* ReadinessFrame tells it from the decoder of the code.
decode_every_sigil(line, state, deadline, t) ==
    IF line = <<>> THEN [state |-> state, deadline |-> deadline]
    ELSE IF line[1] \in {"%", "*"} THEN [state |-> line[1], deadline |-> t + 3]
    ELSE [state |-> line[1], deadline |-> deadline]

housedcc_pidcc_decode(line, state, deadline, t) ==
    IF line = <<>> THEN [state |-> state, deadline |-> deadline]
    ELSE IF line[1] = "#" THEN [state |-> "#", deadline |-> deadline]
    ELSE IF line[1] \in {"%", "*"} THEN [state |-> line[1], deadline |-> t + 3]
    ELSE [state |-> state, deadline |-> deadline]

\* The for loop of housedcc_pidcc_receive, from index i on: the loop passes
\* over every character that ends no line, up to the next one that does (j).
RECURSIVE receive_loop(_, _, _)
receive_loop(i, s, t) ==
    LET ends == {j \in i .. s.producer - 1 : s.buf[j + 1] \in {"\n", "\r"}}
    IN IF ends = {} THEN s
       ELSE LET j == Min(ends)
            IN IF j <= s.consumer THEN receive_loop(j + 1, s, t)
               ELSE LET cut == [s.buf EXCEPT ![j + 1] = NUL]
                        line == CString(cut, s.consumer)
                        d == housedcc_pidcc_decode(line, s.state, s.deadline, t)
                    IN receive_loop(j + 1,
                           [s EXCEPT !.buf = cut, !.consumer = j + 1,
                                     !.state = d.state, !.deadline = d.deadline,
                                     !.lines = Append(@, line)], t)

\* The end of housedcc_pidcc_receive: reset or shift the buffer.
receive_compact(s) ==
    IF s.consumer >= s.producer
    THEN [s EXCEPT !.buf = <<>>, !.consumer = 0, !.producer = 0]
    ELSE IF s.producer >= PiDccBufferSize - PiDccBufferMargin
    THEN [s EXCEPT !.buf = SubSeq(s.buf, s.consumer + 1, s.producer),
                   !.consumer = 0, !.producer = s.producer - s.consumer]
    ELSE s

\* A read that would be asked for the whole of what is left of the buffer:
\* BufferBounds tells it from the read of the code.
receive_room_whole == PiDccBufferSize - PiDccBufferProducer

\* How many bytes read(2) is asked for.
receive_room == PiDccBufferSize - PiDccBufferProducer - 1

\* housedcc_pidcc_receive when read(2) returns data (<<>>: returns <= 0).
receive_result(data) ==
    LET s0 == [buf |-> PiDccBuffer \o data,
               consumer |-> PiDccBufferConsumer,
               producer |-> PiDccBufferProducer + Len(data),
               state |-> PiDccState, deadline |-> PiDccStateDeadline,
               lines |-> <<>>]
    IN IF data = <<>> THEN [s0 EXCEPT !.buf = PiDccBuffer]
       ELSE receive_compact(receive_loop(PiDccBufferConsumer, s0, now))

\* track: whether this specification follows the history of the stream.
housedcc_pidcc_receive(data, track) ==
    /\ PiDccListen > 0
    /\ Len(data) <= receive_room
    /\ LET s == receive_result(data)
       IN /\ PiDccBuffer' = s.buf
          /\ PiDccBufferConsumer' = s.consumer
          /\ PiDccBufferProducer' = s.producer
          /\ PiDccState' = s.state
          /\ PiDccStateDeadline' = s.deadline
          /\ stream' = IF track THEN stream \o data ELSE stream
          /\ decoded' = IF track THEN decoded \o s.lines ELSE decoded
          /\ called' = [op |-> "receive", args |-> <<data>>, io |-> "read"]
          /\ returned' = 0
          /\ written' = <<>>
    /\ UNCHANGED <<now, GpioPinA, GpioPinB, processVars, fleetVars, accepted, sent,
                   worker, DccLatest>>

----
\* housedcc_pidcc.c: the worker process.

\* The descriptors pipe(2) can still return.
FreeFds(fds) == (FirstFd .. (FdLimit - 1)) \ fds

\* The outcomes of housedcc_pidcc_launch that the environment allows:
\* pipe(2) fails when the descriptors are exhausted (and may fail before).
LaunchOutcomes(fds) ==
    {"pipe1fail"}
        \cup (IF Cardinality(FreeFds(fds)) >= 2 THEN {"pipe2fail"} ELSE {})
        \cup (IF Cardinality(FreeFds(fds)) >= 4 THEN {"forkfail", "ok"} ELSE {})

\* p = [process, transmit, listen, fds, running, zombies]
housedcc_pidcc_launch(p, o) ==
    IF o = "pipe1fail" THEN p
    ELSE LET l0 == Min(FreeFds(p.fds))
             l1 == Min(FreeFds(p.fds \cup {l0}))
         IN IF o = "pipe2fail" THEN [p EXCEPT !.fds = @ \cup {l0, l1}]
            ELSE LET t0 == Min(FreeFds(p.fds \cup {l0, l1}))
                     t1 == Min(FreeFds(p.fds \cup {l0, l1, t0}))
                     all == p.fds \cup {l0, l1, t0, t1}
                     pid == Min((1 .. 3) \ (p.running \cup p.zombies))
                 IN IF o = "forkfail"
                    THEN [p EXCEPT !.process = -1, !.fds = all]
                    ELSE [p EXCEPT !.process = pid, !.fds = all,
                                   !.transmit = t1, !.listen = l0,
                                   !.running = @ \cup {pid}]

\* waitpid (pid, 0, WNOHANG): pid once it exited, 0 while it runs.
waitpid(p) ==
    IF p.process \in p.zombies THEN p.process
    ELSE IF p.process \in p.running THEN 0
    ELSE -1

\* A check that would report the worker dead without asking waitpid:
\* OneWorker tells it from the check of the code.
deceased_unasked(p) == [ret |-> 1, p |-> p]

housedcc_pidcc_deceased(p) ==
    IF p.process <= 0 THEN [ret |-> 1, p |-> p]
    ELSE IF waitpid(p) = p.process
    THEN [ret |-> 1,
          p |-> [p EXCEPT !.process = 0,
                          !.zombies = @ \ {p.process},
                          !.transmit = 0,
                          !.listen = 0,
                          !.fds = @ \ ((IF p.transmit > 0 THEN {p.transmit} ELSE {})
                                       \cup (IF p.listen > 0 THEN {p.listen} ELSE {}))]]
    ELSE [ret |-> 0, p |-> p]

ProcessState ==
    [process |-> PiDccProcess, transmit |-> PiDccTransmit, listen |-> PiDccListen,
     fds |-> openfds, running |-> running, zombies |-> zombies]

SetProcessState(p) ==
    /\ PiDccProcess' = p.process
    /\ PiDccTransmit' = p.transmit
    /\ PiDccListen' = p.listen
    /\ openfds' = p.fds
    /\ running' = p.running
    /\ zombies' = p.zombies

\* The state after the first if of housedcc_pidcc_periodic (t).
periodic_state(t) ==
    IF PiDccState = "*" /\ PiDccStateDeadline < t THEN "#" ELSE PiDccState

\* What housedcc_pidcc_periodic (t) does to the transport; o is the outcome
\* of the launch, if it comes to one.
periodic_effect(t, o) ==
    /\ PiDccState' = periodic_state(t)
    /\ IF t % 5 = 0
       THEN LET d == housedcc_pidcc_deceased(ProcessState)
            IN IF d.ret # 0
               THEN /\ o \in LaunchOutcomes(d.p.fds)
                    /\ SetProcessState(housedcc_pidcc_launch(d.p, o))
               ELSE /\ o = "none"
                    /\ SetProcessState(d.p)
       ELSE /\ o = "none"
            /\ UNCHANGED processVars
    /\ UNCHANGED <<PiDccStateDeadline, GpioPinA, GpioPinB, bufferVars>>

\* The history of the worker once housedcc_pidcc_launch had the outcome o.
launched_worker(o) ==
    IF o = "ok"
    THEN [replacement |-> (PiDccProcess > 0) /\ housedcc_pidcc_enabled, pinned |-> FALSE]
    ELSE worker

\* The history of the worker once out was written.
written_worker(out) ==
    IF out # <<>> /\ out[1].text.cmd = "pin" THEN [worker EXCEPT !.pinned = TRUE]
    ELSE worker

housedcc_pidcc_periodic(o) ==
    /\ periodic_effect(now, o)
    /\ called' = [op |-> "periodic", args |-> <<now>>, io |-> o]
    /\ returned' = 0
    /\ written' = <<>>
    /\ worker' = launched_worker(o)
    /\ UNCHANGED <<now, fleetVars, historyVars, DccLatest>>

housedcc_pidcc_config(pina, pinb, w) ==
    /\ GpioPinA' = pina
    /\ GpioPinB' = pinb
    /\ called' = [op |-> "config", args |-> <<pina, pinb>>, io |-> w]
    /\ returned' = 0
    /\ written' = housedcc_pidcc_config_write(pina, pinb, w)
    /\ worker' = written_worker(housedcc_pidcc_config_write(pina, pinb, w))
    /\ UNCHANGED <<now, PiDccState, PiDccStateDeadline, bufferVars, processVars,
                   fleetVars, historyVars, DccLatest>>

----
\* The environment.

\* One second passes.
Tick ==
    /\ now < MaxTime
    /\ now' = now + 1
    /\ UNCHANGED <<pidccVars, bufferVars, processVars, fleetVars, historyVars, worker,
                   DccLatest, callVars>>

\* The worker process exits.
WorkerExit ==
    /\ \E pid \in running :
          /\ running' = running \ {pid}
          /\ zombies' = zombies \cup {pid}
    /\ UNCHANGED <<now, pidccVars, bufferVars, PiDccProcess, PiDccTransmit,
                   PiDccListen, openfds, fleetVars, historyVars, worker, DccLatest,
                   callVars>>

\* A caller of the transport's functions that return a result.
Call(op, args, w, r) ==
    /\ called' = [op |-> op, args |-> args, io |-> w]
    /\ returned' = r.ret
    /\ written' = r.out
    /\ UNCHANGED <<now, pidccVars, bufferVars, processVars, fleetVars, historyVars,
                   worker, DccLatest>>

\* The same caller, followed by the history of what was accepted and what
\* was written, up to MaxSent commands.
Issue(op, args, w, r) ==
    /\ Len(accepted) < MaxSent
    /\ called' = [op |-> op, args |-> args, io |-> w]
    /\ returned' = r.ret
    /\ written' = r.out
    /\ accepted' = IF r.ret # 0 THEN Append(accepted, [op |-> op, args |-> args])
                   ELSE accepted
    /\ sent' = sent \o r.out
    /\ UNCHANGED <<now, pidccVars, bufferVars, processVars, fleetVars, stream, decoded,
                   worker, DccLatest>>

\* housedcc_pidcc_config followed the same way: it returns nothing, and is
\* accepted when it comes to write and the write succeeds.
IssueConfig(pina, pinb, w) ==
    /\ Len(accepted) < MaxSent
    /\ GpioPinA' = pina
    /\ GpioPinB' = pinb
    /\ called' = [op |-> "config", args |-> <<pina, pinb>>, io |-> w]
    /\ returned' = 0
    /\ written' = housedcc_pidcc_config_write(pina, pinb, w)
    /\ accepted' = IF ((pina > 0) \/ (pinb > 0)) /\ w = "ok"
                   THEN Append(accepted, [op |-> "config", args |-> <<pina, pinb>>])
                   ELSE accepted
    /\ sent' = sent \o housedcc_pidcc_config_write(pina, pinb, w)
    /\ worker' = written_worker(housedcc_pidcc_config_write(pina, pinb, w))
    /\ UNCHANGED <<now, PiDccState, PiDccStateDeadline, bufferVars, processVars,
                   fleetVars, stream, decoded, DccLatest>>

CallMove(address, speed, w) ==
    Call("move", <<address, speed>>, w, housedcc_pidcc_move(address, speed, w))

CallStop(address, emergency, w) ==
    Call("stop", <<address, emergency>>, w, housedcc_pidcc_stop(address, emergency, w))

CallFunction(address, instruction, w) ==
    Call("function", <<address, instruction>>, w,
         housedcc_pidcc_function(address, instruction, w))

CallAccessory(address, device, value, w) ==
    Call("accessory", <<address, device, value>>, w,
         housedcc_pidcc_accessory(address, device, value, w))

----
\* housedcc_fleet.c: the registry.  A name or id is kept whole (none of the
\* names used here reaches the 14 characters where snprintf truncates).  A
\* deleted slot is one whose name or id is "" (its first character is NUL).
\* A DccModel pointer is [slot, dangling]: the slot of Models it points at,
\* and whether the table it pointed into has been freed since.

FUNCTION_MAX == 16
VEHICLE_TYPE_NODCC == 0
VEHICLE_TYPE_CAR == 1
VEHICLE_TYPE_ENGINE == 2
AllocationStep == 16

NullModel == [slot |-> -1, dangling |-> FALSE]
ModelAt(cursor) == [slot |-> cursor, dangling |-> FALSE]

\* The first index (from 0) of seq whose element has value in field, or -1.
FirstIndex(seq, field, value) ==
    IF \E i \in 1 .. Len(seq) : seq[i][field] = value
    THEN Min({i \in 1 .. Len(seq) : seq[i][field] = value}) - 1
    ELSE -1

\* housedcc_fleet_find_model when Models is table.
find_model_in(table, model) ==
    IF model = "" THEN -1
    ELSE FirstIndex(table, "name", model)

housedcc_fleet_find_model(model) == find_model_in(Models, model)

housedcc_fleet_find(id) == FirstIndex(Vehicles, "id", id)

housedcc_fleet_find_address(address) == FirstIndex(Vehicles, "address", address)

housedcc_fleet_totype(type) ==
    IF type \in {"engine", "locomotive"} THEN VEHICLE_TYPE_ENGINE
    ELSE IF type = "car" THEN VEHICLE_TYPE_CAR
    ELSE VEHICLE_TYPE_NODCC

housedcc_fleet_toname(type) ==
    IF type = VEHICLE_TYPE_ENGINE THEN "engine"
    ELSE IF type = VEHICLE_TYPE_CAR THEN "car"
    ELSE "dummy"

\* An int stored in a char and read back.
CharValue(n) ==
    IF CharIsSigned THEN ((n + 128) % 256) - 128 ELSE n % 256

\* A search that would never take a deleted slot: SlotReuse tells it from
\* the search of the code.
free_slot_end(seq, field) == Len(seq)

\* The slot a new entry takes: the first deleted one, else one more.
free_slot(seq, field) ==
    IF FirstIndex(seq, field, "") >= 0 THEN FirstIndex(seq, field, "") ELSE Len(seq)

\* seq with the slot cursor (from 0) set to e, the table growing by one slot
\* when cursor is its length.
Store(seq, cursor, e) ==
    IF cursor >= Len(seq) THEN Append(seq, e) ELSE [seq EXCEPT ![cursor + 1] = e]

\* A function of a model as declared: "name:index" (indexed, atoi gives
\* index), or "name" alone (not indexed), where the index is set to -1.
declared_function(f) ==
    [name |-> f.name,
     index |-> IF f.indexed THEN CharValue(f.index) ELSE CharValue(-1)]

\* The vehicles once Models has been freed: their pointers dangle.
Dangle(table) ==
    [i \in 1 .. Len(table) |->
        IF table[i].model = NullModel THEN table[i]
        ELSE [table[i] EXCEPT !.model.dangling = TRUE]]

\* A declare that would always take a new slot: RedeclareInPlace tells it
\* from the declare of the code.
declare_appended(model, type, functions) ==
    LET count == IF Len(functions) > FUNCTION_MAX THEN FUNCTION_MAX ELSE Len(functions)
    IN /\ Models' = Append(Models,
                           [name |-> model,
                            type |-> housedcc_fleet_totype(type),
                            count |-> count,
                            functions |-> [i \in 1 .. count |->
                                               declared_function(functions[i])]])
       /\ UNCHANGED <<ModelsAllocated, Vehicles, VehiclesAllocated, CharIsSigned>>

\* What housedcc_fleet_declare does to the registry.
declare_effect(model, type, functions) ==
    LET found == housedcc_fleet_find_model(model)
        cursor == IF found >= 0 THEN found ELSE free_slot(Models, "name")
        count == IF Len(functions) > FUNCTION_MAX THEN FUNCTION_MAX ELSE Len(functions)
    IN /\ Models' = Store(Models, cursor,
                          [name |-> model,
                           type |-> housedcc_fleet_totype(type),
                           count |-> count,
                           functions |-> [i \in 1 .. count |->
                                              declared_function(functions[i])]])
       /\ ModelsAllocated' =
              IF found < 0 /\ cursor >= Len(Models) /\ Len(Models) >= ModelsAllocated
              THEN ModelsAllocated + AllocationStep ELSE ModelsAllocated
       \* realloc may return the block where it was or move it.
       /\ Vehicles' \in
              IF found < 0 /\ cursor >= Len(Models) /\ Len(Models) >= ModelsAllocated
              THEN {Vehicles, Dangle(Vehicles)} ELSE {Vehicles}
       /\ UNCHANGED <<VehiclesAllocated, CharIsSigned>>

housedcc_fleet_valid_address(address) == (address > 0) /\ (address < 128)

\* Whether housedcc_fleet_add returns before changing anything.
add_conflict(id, address) ==
    LET cursor == housedcc_fleet_find(id)
        synonym == housedcc_fleet_find_address(address)
    IN (synonym >= 0) /\ (cursor # synonym)

\* What housedcc_fleet_add does to the registry.
add_effect(id, model, address) ==
    IF ~housedcc_fleet_valid_address(address) \/ add_conflict(id, address)
    THEN UNCHANGED fleetVars
    ELSE LET m == housedcc_fleet_find_model(model)
             thismodel == IF m >= 0 THEN ModelAt(m) ELSE NullModel
             found == housedcc_fleet_find(id)
             cursor == IF found >= 0 THEN found ELSE free_slot(Vehicles, "id")
             oldid == IF found >= 0 THEN Vehicles[cursor + 1].id ELSE id
         IN /\ Vehicles' = Store(Vehicles, cursor,
                                 [id |-> oldid, address |-> address, speed |-> 0,
                                  functions |-> 0, model |-> thismodel])
            /\ VehiclesAllocated' =
                   IF found < 0 /\ cursor >= Len(Vehicles)
                                /\ Len(Vehicles) >= VehiclesAllocated
                   THEN VehiclesAllocated + AllocationStep ELSE VehiclesAllocated
            /\ UNCHANGED <<Models, ModelsAllocated, CharIsSigned>>

\* A delete that would look for a model before a vehicle:
\* SharedNameDeletesVehicle tells it from the delete of the code.
delete_model_first(id) ==
    LET cursor == housedcc_fleet_find(id)
        model == housedcc_fleet_find_model(id)
    IN IF model >= 0
       THEN /\ Models' = [Models EXCEPT ![model + 1].name = ""]
            /\ UNCHANGED <<ModelsAllocated, Vehicles, VehiclesAllocated, CharIsSigned>>
       ELSE IF cursor >= 0
       THEN /\ Vehicles' = [Vehicles EXCEPT ![cursor + 1].id = ""]
            /\ UNCHANGED <<Models, ModelsAllocated, VehiclesAllocated, CharIsSigned>>
       ELSE UNCHANGED fleetVars

\* What housedcc_fleet_delete does to the registry.
delete_effect(id) ==
    LET cursor == housedcc_fleet_find(id)
        model == housedcc_fleet_find_model(id)
    IN IF cursor >= 0
       THEN /\ Vehicles' = [Vehicles EXCEPT ![cursor + 1].id = ""]
            /\ UNCHANGED <<Models, ModelsAllocated, VehiclesAllocated, CharIsSigned>>
       ELSE IF model >= 0
       THEN /\ Models' = [Models EXCEPT ![model + 1].name = ""]
            /\ UNCHANGED <<ModelsAllocated, Vehicles, VehiclesAllocated, CharIsSigned>>
       ELSE UNCHANGED fleetVars

\* A configuration is [models, vehicles, gpio]: models a sequence of
\* [name, type, devices], devices a sequence of [name, index], vehicles a
\* sequence of [id, model, address] (model "" when the item has none), gpio
\* the two pins.

\* The device that innerlist[i] designates while the devices of the model
\* i (from 0) are loaded: the device i of that model when it has one, else
\* what the uninitialized entry happens to hold, g: "skip" (nothing that
\* designates a device) or any device of the configuration.
GarbageDevices(cfg) ==
    {[valid |-> FALSE, name |-> "", index |-> 0]}
        \cup {[valid |-> TRUE, name |-> cfg.models[i].devices[j].name,
               index |-> cfg.models[i].devices[j].index] :
                  <<i, j>> \in {<<i, j>> \in (1 .. Len(cfg.models)) \X (1 .. FUNCTION_MAX) :
                                   j <= Len(cfg.models[i].devices)}}

innerlist_entry(item, i, g) ==
    IF i < Len(item.devices)
    THEN [valid |-> TRUE, name |-> item.devices[i + 1].name,
          index |-> item.devices[i + 1].index]
    ELSE g

\* The functions loaded for the model i (from 0) of the configuration.
reload_functions(item, i, g) ==
    LET devcount == IF Len(item.devices) > FUNCTION_MAX THEN FUNCTION_MAX
                    ELSE Len(item.devices)
        dev == innerlist_entry(item, i, g)
    IN IF dev.valid /\ dev.index > 0
       THEN [j \in 1 .. devcount |-> [name |-> dev.name, index |-> CharValue(dev.index)]]
       ELSE <<>>

\* The table housedcc_fleet_reload_models builds; g[i] is the garbage the
\* model i may read.
reload_models_table(cfg, g) ==
    [i \in 1 .. Len(cfg.models) |->
        LET f == reload_functions(cfg.models[i], i - 1, g[i])
        IN [name |-> cfg.models[i].name,
            type |-> housedcc_fleet_totype(cfg.models[i].type),
            count |-> Len(f),
            functions |-> f]]

\* The table housedcc_fleet_reload_vehicles builds, Models being table.
reload_vehicles_table(cfg, table) ==
    [i \in 1 .. Len(cfg.vehicles) |->
        LET m == find_model_in(table, cfg.vehicles[i].model)
        IN [id |-> cfg.vehicles[i].id,
            address |-> cfg.vehicles[i].address,
            speed |-> 0,
            functions |-> 0,
            model |-> IF m >= 0 THEN ModelAt(m) ELSE NullModel]]

\* What housedcc_fleet_reload does to the registry: reload_models, then
\* reload_vehicles.
reload_effect(cfg, g) ==
    LET reloadm == Len(cfg.models) > 0
        reloadv == Len(cfg.vehicles) > 0
        table == IF reloadm THEN reload_models_table(cfg, g) ELSE Models
        kept == IF reloadm THEN Dangle(Vehicles) ELSE Vehicles
    IN /\ Models' = table
       /\ ModelsAllocated' =
              IF reloadm THEN Len(cfg.models) + AllocationStep ELSE ModelsAllocated
       /\ Vehicles' = IF reloadv THEN reload_vehicles_table(cfg, table) ELSE kept
       /\ VehiclesAllocated' =
              IF reloadv THEN Len(cfg.vehicles) + AllocationStep ELSE VehiclesAllocated
       /\ UNCHANGED CharIsSigned

\* housedcc_fleet.c: the commands.  The functions of a vehicle are the 16
\* bits of its short, held as a number 0..65535.

\* (short)(1 << k), as the 16 bits kept: for k outside 0..30 the shift is
\* undefined; the processors either take the count modulo 32 or shift
\* everything out.
ShiftOutcomes(k) ==
    IF 0 <= k /\ k <= 15 THEN {2 ^ k}
    ELSE IF 16 <= k /\ k <= 30 THEN {0}
    ELSE {0, IF k % 32 <= 15 THEN 2 ^ (k % 32) ELSE 0}

\* What reading through a dangling DccModel pointer can give: the slot of
\* the table now in place, or a freed block with nothing in it.
EmptyModel == [name |-> "", type |-> VEHICLE_TYPE_NODCC, count |-> 0, functions |-> <<>>]
ModelReads(pointer) ==
    IF pointer.dangling
    THEN {EmptyModel} \cup (IF pointer.slot < Len(Models)
                            THEN {Models[pointer.slot + 1]} ELSE {})
    ELSE {Models[pointer.slot + 1]}

clamp_speed(speed) ==
    IF speed < -31 THEN -31 ELSE IF speed > 31 THEN 31 ELSE speed

\* housedcc_fleet_move: what it returns and sends, and the table it leaves.
housedcc_fleet_move(id, speed, w) ==
    LET cursor == housedcc_fleet_find(id)
    IN IF cursor < 0 THEN [ret |-> 0, out |-> <<>>, table |-> Vehicles]
       ELSE LET r == housedcc_pidcc_move(Vehicles[cursor + 1].address,
                                         clamp_speed(speed), w)
            IN [ret |-> r.ret, out |-> r.out,
                table |-> [Vehicles EXCEPT ![cursor + 1].speed = clamp_speed(speed)]]

housedcc_fleet_stop(id, emergency, w) ==
    LET cursor == housedcc_fleet_find(id)
    IN IF cursor < 0 THEN [ret |-> 0, out |-> <<>>, table |-> Vehicles]
       ELSE LET r == housedcc_pidcc_stop(Vehicles[cursor + 1].address, emergency, w)
            IN [ret |-> r.ret, out |-> r.out,
                table |-> [Vehicles EXCEPT ![cursor + 1].speed = 0]]

housedcc_fleet_stopped ==
    [i \in 1 .. Len(Vehicles) |->
        IF Vehicles[i].id # "" THEN [Vehicles[i] EXCEPT !.speed = 0] ELSE Vehicles[i]]

\* A mask update that would forget the other functions: SetEncoding tells
\* it from the update of the code.
set_mask_alone(functions, mask, state) == IF state # 0 THEN mask ELSE 0

\* The functions of a vehicle once the bit mask is set or cleared.
set_mask(functions, mask, state) ==
    IF state # 0 THEN BitOr(functions, mask)
    ELSE functions - BitAnd(functions, mask)

\* The instruction byte for the group of index; -1 when index has none.
set_instruction(index, functions) ==
    IF (index <= 4) \/ (index = 13)
    THEN 128 + LowBits(functions, 15)
             + (IF BitAnd(functions, 4096) # 0 THEN 16 ELSE 0)
    ELSE IF index <= 8 THEN 176 + LowBits(functions \div 16, 15)
    ELSE IF index <= 12 THEN 160 + LowBits(functions \div 256, 15)
    ELSE -1

\* housedcc_fleet_set: model is what the vehicle's model pointer reads,
\* mask what the shift gives.
housedcc_fleet_set(id, name, state, w, model, mask) ==
    LET cursor == housedcc_fleet_find(id)
        i == FirstIndex(model.functions, "name", name)
        index == model.functions[i + 1].index
        functions == set_mask(Vehicles[cursor + 1].functions, mask, state)
        table == [Vehicles EXCEPT ![cursor + 1].functions = functions]
        r == housedcc_pidcc_function(Vehicles[cursor + 1].address,
                                     set_instruction(index, functions), w)
    IN IF cursor < 0 THEN [ret |-> 0, out |-> <<>>, table |-> Vehicles]
       ELSE IF i < 0 THEN [ret |-> 0, out |-> <<>>, table |-> Vehicles]
       ELSE IF set_instruction(index, functions) < 0
       THEN [ret |-> 0, out |-> <<>>, table |-> table]
       ELSE [ret |-> r.ret, out |-> r.out, table |-> table]

\* The models and masks housedcc_fleet_set (id, name, ...) can come to read.
set_models(id) ==
    LET cursor == housedcc_fleet_find(id)
    IN IF cursor < 0 \/ Vehicles[cursor + 1].model = NullModel THEN {EmptyModel}
       ELSE ModelReads(Vehicles[cursor + 1].model)

set_masks(model, name) ==
    LET i == FirstIndex(model.functions, "name", name)
    IN IF i < 0 THEN {0} ELSE ShiftOutcomes(model.functions[i + 1].index - 1)

\* A call of a command of housedcc_fleet.h.
FleetCall(op, args, w, r) ==
    /\ called' = [op |-> op, args |-> args, io |-> w]
    /\ returned' = r.ret
    /\ written' = r.out
    /\ Vehicles' = r.table
    /\ UNCHANGED <<now, pidccVars, bufferVars, processVars, Models, ModelsAllocated,
                   VehiclesAllocated, CharIsSigned, historyVars, worker, DccLatest>>

FleetMove(id, speed, w) ==
    FleetCall("fleet_move", <<id, speed>>, w, housedcc_fleet_move(id, speed, w))

FleetStop(id, emergency, w) ==
    FleetCall("fleet_stop", <<id, emergency>>, w, housedcc_fleet_stop(id, emergency, w))

FleetSet(id, name, state, w) ==
    \E model \in set_models(id) :
        \E mask \in set_masks(model, name) :
            FleetCall("fleet_set", <<id, name, state>>, w,
                      housedcc_fleet_set(id, name, state, w, model, mask))

\* A call of a registry function that returns nothing and sends nothing.
RegistryCall(op, args) ==
    /\ called' = [op |-> op, args |-> args, io |-> "none"]
    /\ returned' = 0
    /\ written' = <<>>
    /\ UNCHANGED <<now, pidccVars, bufferVars, processVars, historyVars, worker, DccLatest>>

housedcc_fleet_declare(model, type, functions) ==
    /\ declare_effect(model, type, functions)
    /\ RegistryCall("declare", <<model, type, functions>>)

housedcc_fleet_add(id, model, address) ==
    /\ add_effect(id, model, address)
    /\ RegistryCall("add", <<id, model, address>>)

housedcc_fleet_delete(id) ==
    /\ delete_effect(id)
    /\ RegistryCall("delete", <<id>>)

housedcc_fleet_reload(cfg, g) ==
    /\ reload_effect(cfg, g)
    /\ RegistryCall("reload", <<cfg>>)

\* What the reads through the model pointers of the vehicles can give:
\* one model for each slot of Vehicles (EmptyModel where the pointer is 0).
VehicleReads ==
    {reads \in [1 .. Len(Vehicles) -> {EmptyModel} \cup {Models[i] : i \in 1 .. Len(Models)}] :
        \A i \in 1 .. Len(Vehicles) :
            reads[i] \in (IF Vehicles[i].model = NullModel THEN {EmptyModel}
                          ELSE ModelReads(Vehicles[i].model))}

\* What 1 << (index - 1) can give for each index that a model holds.
StatusShifts ==
    LET indexes == UNION {{Models[i].functions[j].index : j \in 1 .. Len(Models[i].functions)} :
                             i \in 1 .. Len(Models)}
    IN {shifts \in [indexes -> UNION {ShiftOutcomes(k - 1) : k \in indexes}] :
           \A k \in indexes : shifts[k] \in ShiftOutcomes(k - 1)}

\* The item of a model in "models".
export_model(m) ==
    [name |-> m.name, type |-> housedcc_fleet_toname(m.type), devices |-> m.functions]

\* The items of the models from slot i on (slots count from 0).
RECURSIVE export_models(_)
export_models(i) ==
    IF i >= Len(Models) THEN <<>>
    ELSE IF Models[i + 1].name = "" THEN export_models(i + 1)
    ELSE <<export_model(Models[i + 1])>> \o export_models(i + 1)

\* The item of a vehicle in "vehicles"; the member "model" is <<>> when it
\* is absent, model being what the vehicle's pointer gives.
export_vehicle(v, model) ==
    [id |-> v.id, address |-> v.address,
     model |-> IF v.model = NullModel THEN <<>> ELSE <<model.name>>]

RECURSIVE export_vehicles(_, _)
export_vehicles(i, reads) ==
    IF i >= Len(Vehicles) THEN <<>>
    ELSE IF Vehicles[i + 1].id = "" THEN export_vehicles(i + 1, reads)
    ELSE <<export_vehicle(Vehicles[i + 1], reads[i + 1])>> \o export_vehicles(i + 1, reads)

\* The JSON of housedcc_fleet_export: the items of "models" and of
\* "vehicles".  The buffer is large enough for the registries followed here.
housedcc_fleet_export(reads) ==
    [models |-> export_models(0), vehicles |-> export_vehicles(0, reads)]

\* The configuration that houseconfig gives once it parsed the JSON of
\* housedcc_fleet_export: the member "model" absent reads as no string.
exported_configuration(json) ==
    [models |-> [i \in 1 .. Len(json.models) |->
                    [name |-> json.models[i].name, type |-> json.models[i].type,
                     devices |-> json.models[i].devices]],
     vehicles |-> [i \in 1 .. Len(json.vehicles) |->
                      [id |-> json.vehicles[i].id,
                       model |-> IF json.vehicles[i].model = <<>> THEN ""
                                 ELSE json.vehicles[i].model[1],
                       address |-> json.vehicles[i].address]],
     gpio |-> <<GpioPinA, GpioPinB>>]

\* The registry exported, and what was exported loaded again.
ExportThenReload(reads, g) ==
    /\ reload_effect(exported_configuration(housedcc_fleet_export(reads)), g)
    /\ RegistryCall("export_reload", <<>>)

\* The members of "devices" of a vehicle from function j on.
RECURSIVE status_devices(_, _, _, _)
status_devices(j, v, model, shifts) ==
    IF j >= model.count THEN <<>>
    ELSE <<[name |-> model.functions[j + 1].name,
            on |-> IF model.functions[j + 1].index \in DOMAIN shifts
                   THEN IF BitAnd(LowBits(v.functions, 65535),
                                  shifts[model.functions[j + 1].index]) # 0
                        THEN 1 ELSE 0
                   ELSE 0]>> \o status_devices(j + 1, v, model, shifts)

\* The item of a vehicle in the status.
status_vehicle(v, model, shifts) ==
    [id |-> v.id, address |-> v.address, speed |-> v.speed,
     model |-> IF v.model = NullModel THEN <<>> ELSE <<model.name>>,
     type |-> IF v.model = NullModel THEN <<>> ELSE <<housedcc_fleet_toname(model.type)>>,
     devices |-> IF v.model = NullModel THEN <<>>
                 ELSE status_devices(0, v, model, shifts)]

RECURSIVE status_vehicles(_, _, _)
status_vehicles(i, reads, shifts) ==
    IF i >= Len(Vehicles) THEN <<>>
    ELSE IF Vehicles[i + 1].id = "" THEN status_vehicles(i + 1, reads, shifts)
    ELSE <<status_vehicle(Vehicles[i + 1], reads[i + 1], shifts)>>
             \o status_vehicles(i + 1, reads, shifts)

\* The JSON of housedcc_fleet_status: the items of "vehicles".
housedcc_fleet_status(reads, shifts) == status_vehicles(0, reads, shifts)

\* The registry exported, as dcc_export does: what is written is the JSON
\* put in the buffer, what is returned its number of items.
FleetExport ==
    /\ \E reads \in VehicleReads :
          /\ written' = <<[buffer |-> housedcc_fleet_export(reads)]>>
          /\ returned' = Len(housedcc_fleet_export(reads).models)
                             + Len(housedcc_fleet_export(reads).vehicles)
    /\ called' = [op |-> "fleet_export", args |-> <<>>, io |-> "none"]
    /\ UNCHANGED <<now, pidccVars, bufferVars, processVars, fleetVars, historyVars,
                   worker, DccLatest>>

\* The status of the vehicles listed, as dcc_status does.
FleetStatus ==
    /\ \E reads \in VehicleReads, shifts \in StatusShifts :
          /\ written' = <<[buffer |-> [vehicles |-> housedcc_fleet_status(reads, shifts)]]>>
          /\ returned' = Len(housedcc_fleet_status(reads, shifts))
    /\ called' = [op |-> "fleet_status", args |-> <<>>, io |-> "none"]
    /\ UNCHANGED <<now, pidccVars, bufferVars, processVars, fleetVars, historyVars,
                   worker, DccLatest>>

----
\* housedcc.c: the service.

\* The periodic background function of the main loop (echttp_background).
\* housedcc_fleet_periodic does nothing; the other functions it calls belong
\* to the portal, discovery, log, depot and capture libraries.
dcc_background ==
    /\ called' = [op |-> "background", args |-> <<now>>, io |-> "none"]
    /\ returned' = 0
    /\ written' = <<>>
    /\ UNCHANGED <<now, pidccVars, bufferVars, processVars, fleetVars, historyVars,
                   worker, DccLatest>>

\* A configuration arrives from the depot; valid: houseconfig_update
\* accepts it.  As housedcc_pidcc_reload then housedcc_fleet_reload.
dcc_config_listener(cfg, valid, w, g) ==
    /\ called' = [op |-> "config_listener", args |-> <<cfg, valid>>, io |-> w]
    /\ returned' = 0
    /\ IF valid
       THEN /\ GpioPinA' = cfg.gpio[1]
            /\ GpioPinB' = cfg.gpio[2]
            /\ written' = housedcc_pidcc_config_write(cfg.gpio[1], cfg.gpio[2], w)
            /\ worker' =
                   written_worker(housedcc_pidcc_config_write(cfg.gpio[1], cfg.gpio[2], w))
            /\ reload_effect(cfg, g)
       ELSE /\ written' = <<>>
            /\ UNCHANGED <<GpioPinA, GpioPinB, fleetVars, worker>>
    /\ UNCHANGED <<now, PiDccState, PiDccStateDeadline, bufferVars, processVars,
                   historyVars, DccLatest>>

\* A parameter of an HTTP request, as echttp_parameter_get returns it:
\* null when the request has none, else its text; chars holds the
\* characters of a text that reads as a number, for isdigit and atoi.
\* A parameter is <<null, text, chars>>.
NoParam == <<TRUE, "", <<>>>>
TextParam(text) == <<FALSE, text, <<>>>>
NumberParam(text, chars) == <<FALSE, text, chars>>
null_of(p) == p[1]
text_of(p) == p[2]
chars_of(p) == p[3]

DigitChars == <<"0", "1", "2", "3", "4", "5", "6", "7", "8", "9">>
isdigit(c) == \E d \in 1 .. 10 : DigitChars[d] = c
DigitValue(c) == (CHOOSE d \in 1 .. 10 : DigitChars[d] = c) - 1

\* The digits at the head of chars, read in base 10 after acc.
RECURSIVE atoi_digits(_, _)
atoi_digits(chars, acc) ==
    IF chars = <<>> \/ ~isdigit(Head(chars)) THEN acc
    ELSE atoi_digits(Tail(chars), 10 * acc + DigitValue(Head(chars)))

atoi(chars) ==
    IF chars = <<>> THEN 0
    ELSE IF Head(chars) = "-" THEN 0 - atoi_digits(Tail(chars), 0)
    ELSE IF Head(chars) = "+" THEN atoi_digits(Tail(chars), 0)
    ELSE atoi_digits(chars, 0)

\* DccLatest after dcc_initial and after dcc_changed, time(0) being t.
dcc_initial(latest, t) == IF latest = 0 THEN (t % 65536) * 100 ELSE latest
dcc_changed(latest, t) == dcc_initial(latest, t) + 1

\* dcc_same once dcc_initial left latest.
dcc_same(latest, known) == ~null_of(known) /\ atoi(chars_of(known)) = latest

\* The outcome of a request: its HTTP status, the lines written to the
\* worker, the vehicles and DccLatest it leaves.
web_error(code, table) ==
    [status |-> code, out |-> <<>>, table |-> table, latest |-> DccLatest]

\* dcc_changed then dcc_status.
web_changed(known, out, table) ==
    LET latest == dcc_changed(DccLatest, now)
    IN [status |-> IF dcc_same(latest, known) THEN 304 ELSE 200,
        out |-> out, table |-> table, latest |-> latest]

dcc_move(id, speed, known, w) ==
    LET speedvalue == atoi(chars_of(speed))
        direct == housedcc_pidcc_move(atoi(chars_of(id)), speedvalue, w)
        named == housedcc_fleet_move(text_of(id), speedvalue, w)
    IN IF null_of(id) THEN web_error(404, Vehicles)
       ELSE IF null_of(speed) THEN web_error(400, Vehicles)
       ELSE IF chars_of(id) # <<>> /\ isdigit(chars_of(id)[1])
       THEN IF direct.ret = 0 THEN web_error(500, Vehicles)
            ELSE web_changed(known, direct.out, Vehicles)
       ELSE IF named.ret = 0 THEN web_error(404, named.table)
       ELSE web_changed(known, named.out, named.table)

dcc_stop(id, urgent, known, w) ==
    LET emergency == IF null_of(urgent) THEN 0 ELSE atoi(chars_of(urgent))
        all == housedcc_pidcc_stop(0, emergency, w)
        direct == housedcc_pidcc_stop(atoi(chars_of(id)), emergency, w)
        named == housedcc_fleet_stop(text_of(id), emergency, w)
    IN IF null_of(id)
       THEN IF all.ret = 0 THEN web_error(500, Vehicles)
            ELSE web_changed(known, all.out, housedcc_fleet_stopped)
       ELSE IF chars_of(id) # <<>> /\ isdigit(chars_of(id)[1])
       THEN IF direct.ret = 0 THEN web_error(500, Vehicles)
            ELSE web_changed(known, direct.out, Vehicles)
       ELSE IF named.ret = 0 THEN web_error(404, named.table)
       ELSE web_changed(known, named.out, named.table)

\* model and mask: what housedcc_fleet_set comes to read and to shift.
dcc_set(id, device, state, known, w, model, mask) ==
    LET direct == housedcc_pidcc_function(atoi(chars_of(id)), atoi(chars_of(state)), w)
        statevalue == IF text_of(state) = "on" THEN 1 ELSE 0
        named == housedcc_fleet_set(text_of(id), text_of(device), statevalue, w, model, mask)
    IN IF null_of(id) THEN web_error(404, Vehicles)
       ELSE IF null_of(device) \/ null_of(state) THEN web_error(400, Vehicles)
       ELSE IF chars_of(id) # <<>> /\ isdigit(chars_of(id)[1])
       THEN IF direct.ret = 0 THEN web_error(500, Vehicles)
            ELSE web_changed(known, direct.out, Vehicles)
       ELSE IF text_of(state) \notin {"on", "off"} THEN web_error(400, Vehicles)
       ELSE IF named.ret = 0 THEN web_error(404, named.table)
       ELSE web_changed(known, named.out, named.table)

\* A request for a command; r is its outcome.  The requests that change
\* DccLatest are counted up to MaxChanges.
WebCommand(op, args, w, r) ==
    /\ (r.latest = DccLatest) \/ (DccLatest % 100 < MaxChanges)
    /\ called' = [op |-> op, args |-> args, io |-> w]
    /\ returned' = r.status
    /\ written' = r.out
    /\ Vehicles' = r.table
    /\ DccLatest' = r.latest
    /\ UNCHANGED <<now, pidccVars, bufferVars, processVars, Models, ModelsAllocated,
                   VehiclesAllocated, CharIsSigned, historyVars, worker>>

WebMove(id, speed, known, w) ==
    WebCommand("dcc_move", <<id, speed, known>>, w, dcc_move(id, speed, known, w))

WebStop(id, urgent, known, w) ==
    WebCommand("dcc_stop", <<id, urgent, known>>, w, dcc_stop(id, urgent, known, w))

WebSet(id, device, state, known, w) ==
    \E model \in set_models(text_of(id)) :
        \E mask \in set_masks(model, text_of(device)) :
            WebCommand("dcc_set", <<id, device, state, known>>, w,
                       dcc_set(id, device, state, known, w, model, mask))

\* dcc_status and dcc_config: a poll.
dcc_status(op, known) ==
    /\ called' = [op |-> op, args |-> <<known>>, io |-> "none"]
    /\ DccLatest' = dcc_initial(DccLatest, now)
    /\ returned' = IF dcc_same(dcc_initial(DccLatest, now), known) THEN 304 ELSE 200
    /\ written' = <<>>
    /\ UNCHANGED <<now, pidccVars, bufferVars, processVars, fleetVars, historyVars,
                   worker>>

\* A request that ends with dcc_save; found: it has its parameters.
WebSave(op, args, w, found, code) ==
    /\ found => DccLatest % 100 < MaxChanges
    /\ called' = [op |-> op, args |-> args, io |-> w]
    /\ returned' = IF found THEN 200 ELSE code
    /\ DccLatest' = IF found THEN dcc_changed(DccLatest, now) ELSE DccLatest
    /\ UNCHANGED <<now, PiDccState, PiDccStateDeadline, bufferVars, processVars,
                   historyVars>>

dcc_gpio(a, b, w) ==
    LET pina == atoi(chars_of(a))
        pinb == IF null_of(b) THEN 0 ELSE atoi(chars_of(b))
    IN /\ WebSave("dcc_gpio", <<a, b>>, w, ~null_of(a), 404)
       /\ IF null_of(a)
          THEN /\ written' = <<>>
               /\ UNCHANGED <<GpioPinA, GpioPinB, worker>>
          ELSE /\ GpioPinA' = pina
               /\ GpioPinB' = pinb
               /\ written' = housedcc_pidcc_config_write(pina, pinb, w)
               /\ worker' = written_worker(housedcc_pidcc_config_write(pina, pinb, w))
       /\ UNCHANGED fleetVars

dcc_addVehicle(id, model, adr) ==
    /\ WebSave("dcc_addVehicle", <<id, model, adr>>, "none", ~null_of(id) /\ ~null_of(adr), 404)
    /\ IF null_of(id) \/ null_of(adr) THEN UNCHANGED fleetVars
       ELSE add_effect(text_of(id), text_of(model), atoi(chars_of(adr)))
    /\ written' = <<>>
    /\ UNCHANGED <<GpioPinA, GpioPinB, worker>>

dcc_deleteVehicle(id) ==
    /\ WebSave("dcc_deleteVehicle", <<id>>, "none", ~null_of(id), 400)
    /\ IF null_of(id) THEN UNCHANGED fleetVars ELSE delete_effect(text_of(id))
    /\ written' = <<>>
    /\ UNCHANGED <<GpioPinA, GpioPinB, worker>>

----
\* The inputs of the specifications.

Addresses == {-1, 0, 1, 44, 127, 128}
Speeds == -32 .. 32
Instructions == {128, 144}
AccessoryAddresses == {0, 63, 64, 511, 512}
Devices == {0, 3}
Pins == {<<0, 0>>, <<17, 0>>, <<17, 18>>}
StatusLines == {<<"#", "\n">>, <<"%", "\n">>, <<"*", "\n">>, <<"!", "\n">>, <<"$", "\n">>}
LaunchResults == {"none", "pipe1fail", "pipe2fail", "forkfail", "ok"}

\* The C static initializers, then housedcc_pidcc_initialize.
Init ==
    /\ now = 0
    /\ PiDccState = NUL
    /\ PiDccStateDeadline = 0
    /\ GpioPinA = 0
    /\ GpioPinB = 0
    /\ PiDccBuffer = <<>>
    /\ PiDccBufferConsumer = 0
    /\ PiDccBufferProducer = 0
    /\ \E o \in LaunchOutcomes({}) :
          LET p == housedcc_pidcc_launch(
                       [process |-> 0, transmit |-> 0, listen |-> 0, fds |-> {},
                        running |-> {}, zombies |-> {}], o)
          IN /\ PiDccProcess = p.process
             /\ PiDccTransmit = p.transmit
             /\ PiDccListen = p.listen
             /\ openfds = p.fds
             /\ running = p.running
             /\ zombies = p.zombies
    /\ Models = <<>>
    /\ ModelsAllocated = 0
    /\ Vehicles = <<>>
    /\ VehiclesAllocated = 0
    /\ CharIsSigned \in BOOLEAN
    /\ stream = <<>>
    /\ decoded = <<>>
    /\ accepted = <<>>
    /\ sent = <<>>
    /\ worker = [replacement |-> FALSE, pinned |-> FALSE]
    /\ DccLatest = 0
    /\ called = [op |-> "initialize", args |-> <<>>, io |-> "none"]
    /\ returned = 0
    /\ written = <<>>

NextConfig(P) == \E p \in P, w \in WriteOutcomes : housedcc_pidcc_config(p[1], p[2], w)
NextMove(A, S) == \E a \in A, s \in S, w \in WriteOutcomes : CallMove(a, s, w)
NextStop(A) == \E a \in A, e \in {0, 1}, w \in WriteOutcomes : CallStop(a, e, w)
NextFunction(A) ==
    \E a \in A, i \in Instructions, w \in WriteOutcomes : CallFunction(a, i, w)
NextAccessory ==
    \E a \in AccessoryAddresses, d \in Devices, v \in {0, 1}, w \in WriteOutcomes :
        CallAccessory(a, d, v, w)
NextStatus == \E line \in StatusLines : housedcc_pidcc_receive(line, FALSE)
NextPeriodic == \E o \in LaunchResults : housedcc_pidcc_periodic(o)

\* The transport over time: the clock, the worker's status lines and its
\* exits, the periodic function, and a few commands.
Next ==
    \/ Tick
    \/ WorkerExit
    \/ NextStatus
    \/ NextPeriodic
    \/ NextConfig({<<0, 0>>, <<17, 18>>})
    \/ NextMove({44}, {-20})
    \/ NextStop({0})

Spec == Init /\ [][Next]_vars

\* The commands of housedcc_pidcc.h, over their ranges of inputs, in every
\* readiness state (the clock stands still).
NextCommands ==
    \/ NextStatus
    \/ NextConfig(Pins)
    \/ NextMove(Addresses, {-29, -28, 0, 28, 29})
    \/ NextMove({44}, Speeds)
    \/ NextStop(Addresses)
    \/ NextFunction(Addresses)
    \/ NextAccessory

SpecCommands == Init /\ [][NextCommands]_vars

Ids == {"A", "B"}
ModelNames == {"E8"}
FleetAddresses == {0, 1, 2}
FunctionLists ==
    {<<>>,
     <<[name |-> "Light", indexed |-> TRUE, index |-> 13],
       [name |-> "Bell", indexed |-> TRUE, index |-> 1]>>}

E8Devices == <<[name |-> "Light", index |-> 13], [name |-> "Bell", index |-> 1]>>
Configurations ==
    {[models |-> <<[name |-> "E8", type |-> "engine", devices |-> E8Devices]>>,
      vehicles |-> <<[id |-> "A", model |-> "E8", address |-> 1],
                     [id |-> "B", model |-> "", address |-> 2]>>,
      gpio |-> <<17, 18>>],
     [models |-> <<>>,
      vehicles |-> <<[id |-> "A", model |-> "E8", address |-> 1],
                     [id |-> "B", model |-> "E8", address |-> 1]>>,
      gpio |-> <<17, 0>>],
     [models |-> <<[name |-> "E8", type |-> "engine", devices |-> <<>>],
                   [name |-> "F7", type |-> "engine", devices |-> E8Devices]>>,
      vehicles |-> <<>>,
      gpio |-> <<0, 0>>]}

NextDeclare ==
    \E m \in ModelNames, f \in FunctionLists : housedcc_fleet_declare(m, "engine", f)
NextAdd ==
    \E id \in Ids, m \in ModelNames \cup {""}, a \in FleetAddresses :
        housedcc_fleet_add(id, m, a)
NextDelete == \E id \in Ids \cup ModelNames : housedcc_fleet_delete(id)
NextReload ==
    \E cfg \in Configurations :
        \E g \in [1 .. Len(cfg.models) -> GarbageDevices(cfg)] :
            housedcc_fleet_reload(cfg, g)

\* Models and vehicles declared, added and deleted through the functions
\* of housedcc_fleet.h.
NextRegistry ==
    \/ NextDeclare
    \/ NextAdd
    \/ NextDelete

SpecRegistry == Init /\ [][NextRegistry]_vars

\* The same, and configurations loaded.
NextReloading ==
    \/ NextDeclare
    \/ NextAdd
    \/ NextDelete
    \/ NextReload

SpecReload == Init /\ [][NextReloading]_vars

\* One vehicle driven by name: moved, stopped and its functions set, in
\* every readiness state, with and without transmission pins.
FleetSpeeds == {-20, 28, 45}
FleetFunctions ==
    <<[name |-> "Light", indexed |-> TRUE, index |-> 13],
      [name |-> "Horn", indexed |-> TRUE, index |-> 14]>>

NextFleet ==
    \/ housedcc_fleet_declare("E8", "engine", FleetFunctions)
    \/ \E m \in {"", "E8"}, a \in {44, 127} : housedcc_fleet_add("A", m, a)
    \/ \E id \in Ids, speed \in FleetSpeeds, w \in WriteOutcomes : FleetMove(id, speed, w)
    \/ \E id \in Ids, e \in {0, 1} : FleetStop(id, e, "ok")
    \/ \E name \in {"Light", "Horn", "Bell"}, state \in {0, 1}, w \in WriteOutcomes :
          FleetSet("A", name, state, w)
    \/ \E line \in {<<"#", "\n">>, <<"*", "\n">>} : housedcc_pidcc_receive(line, FALSE)
    \/ NextConfig({<<0, 0>>, <<17, 18>>})

SpecFleet == Init /\ [][NextFleet]_vars

\* The running service: what the main loop calls back, that is the
\* background function, the worker's pipe and the depot's configurations.
NextListener ==
    \E cfg \in Configurations, valid \in BOOLEAN, w \in WriteOutcomes :
        \E g \in [1 .. Len(cfg.models) -> GarbageDevices(cfg)] :
            dcc_config_listener(cfg, valid, w, g)

NextService ==
    \/ Tick
    \/ WorkerExit
    \/ NextStatus
    \/ dcc_background
    \/ NextListener

SpecService == Init /\ [][NextService]_vars

\* The web API: vehicles added, deleted and driven by requests, the pins
\* set, the status polled with and without the client's known ID, and a
\* configuration arriving from the depot.
\* The clock of this specification stops at MaxWebTime.
MaxWebTime == 1
WebIds == {NoParam, TextParam("A"), TextParam("B"), NumberParam("44", <<"4", "4">>)}
WebSpeeds == {NoParam, NumberParam("-20", <<"-", "2", "0">>)}
WebStates == {TextParam("on"), TextParam("up")}

\* The decimal text of n >= 0, as a client sends the ID it knows.
RECURSIVE Decimal(_)
Decimal(n) ==
    IF n < 10 THEN <<DigitChars[n + 1]>>
    ELSE Append(Decimal(n \div 10), DigitChars[(n % 10) + 1])

\* What a client can send as "known": nothing, or an ID it was given; the
\* text of the parameter is not read, its characters are.
WebKnown(ids) == {NoParam} \cup {NumberParam("", Decimal(n)) : n \in ids}

NextWeb ==
    \/ Tick /\ now < MaxWebTime
    \/ \E op \in {"dcc_status", "dcc_config"}, known \in WebKnown({DccLatest}) :
          dcc_status(op, known)
    \/ \E id \in WebIds, speed \in WebSpeeds, w \in WriteOutcomes :
          WebMove(id, speed, NoParam, w)
    \/ \E id \in {NoParam, TextParam("A")} : WebStop(id, NoParam, NoParam, "ok")
    \/ \E id \in {TextParam("A"), TextParam("B")}, state \in WebStates :
          WebSet(id, TextParam("Light"), state, NoParam, "ok")
    \/ \E a \in {NoParam, NumberParam("17", <<"1", "7">>)} : dcc_gpio(a, NoParam, "ok")
    \/ \E id \in {NoParam, TextParam("A")} :
          dcc_addVehicle(id, TextParam("E8"), NumberParam("44", <<"4", "4">>))
    \/ \E id \in {NoParam, TextParam("A")} : dcc_deleteVehicle(id)
    \/ \E cfg \in {c \in Configurations : c.gpio = <<17, 18>>} :
          \E g \in [1 .. Len(cfg.models) -> GarbageDevices(cfg)] :
              dcc_config_listener(cfg, TRUE, "ok", g)
    \/ housedcc_pidcc_receive(<<"#", "\n">>, FALSE)

SpecWeb == Init /\ [][NextWeb]_vars

\* The commands written with every result of write(2).
NextTransmit ==
    \/ NextStatus
    \/ NextConfig({<<0, 0>>, <<17, 18>>})
    \/ \E a \in {0, 44}, s \in {-20, 28, 29}, w \in WriteResults : CallMove(a, s, w)
    \/ \E a \in {0, 44}, e \in {0, 1}, w \in WriteResults : CallStop(a, e, w)
    \/ \E a \in {44, 128}, w \in WriteResults : CallFunction(a, 144, w)
    \/ \E a \in {63, 512}, w \in WriteResults : CallAccessory(a, 3, 1, w)

SpecTransmit == Init /\ [][NextTransmit]_vars

\* The registry loaded from a configuration that lists one id twice, then
\* changed through the functions of housedcc_fleet.h.
TwiceConfiguration ==
    [models |-> <<[name |-> "E8", type |-> "engine", devices |-> E8Devices]>>,
     vehicles |-> <<[id |-> "A", model |-> "E8", address |-> 1],
                    [id |-> "A", model |-> "", address |-> 2]>>,
     gpio |-> <<17, 18>>]

NextTwice ==
    \/ NextDeclare
    \/ NextAdd
    \/ NextDelete
    \/ \E g \in [1 .. Len(TwiceConfiguration.models) -> GarbageDevices(TwiceConfiguration)] :
          housedcc_fleet_reload(TwiceConfiguration, g)

SpecTwice == Init /\ [][NextTwice]_vars

\* A vehicle and a model that share the name A, with another vehicle and
\* another model.
NextShared ==
    \/ \E m \in {"A", "E8"} : housedcc_fleet_declare(m, "engine", <<>>)
    \/ \E id \in Ids, m \in {"", "A"}, a \in {1, 2} : housedcc_fleet_add(id, m, a)
    \/ \E id \in Ids \cup {"E8"} : housedcc_fleet_delete(id)

SpecShared == Init /\ [][NextShared]_vars

\* Models declared again and again, with no, two and FUNCTION_MAX + 1
\* functions, while a vehicle of the model E8 exists and moves.
LongFunctions ==
    [i \in 1 .. FUNCTION_MAX + 1 |-> [name |-> "Aux", indexed |-> TRUE, index |-> i]]

NextRedeclare ==
    \/ \E m \in {"E8", "F7"}, t \in {"engine", "car"},
          f \in FunctionLists \cup {LongFunctions} : housedcc_fleet_declare(m, t, f)
    \/ \E m \in {"", "E8"} : housedcc_fleet_add("A", m, 44)
    \/ housedcc_fleet_delete("A")
    \/ FleetMove("A", -20, "ok")

SpecRedeclare == Init /\ [][NextRedeclare]_vars

\* A few commands issued in any order, in every readiness state, what was
\* accepted and what was written being recorded.
NextOrder ==
    \/ NextStatus
    \/ \E w \in WriteOutcomes : IssueConfig(17, 18, w)
    \/ \E w \in WriteOutcomes :
          Issue("move", <<44, -20>>, w, housedcc_pidcc_move(44, -20, w))
    \/ \E w \in WriteOutcomes : Issue("stop", <<0, 1>>, w, housedcc_pidcc_stop(0, 1, w))
    \/ \E w \in WriteOutcomes :
          Issue("function", <<44, 144>>, w, housedcc_pidcc_function(44, 144, w))
    \/ \E w \in WriteOutcomes :
          Issue("accessory", <<63, 3, 1>>, w, housedcc_pidcc_accessory(63, 3, 1, w))

SpecOrder == Init /\ [][NextOrder]_vars

\* The worker's byte stream, cut into reads of any sizes.
Bytes == {"#", "*", "x", "\n", "\r"}
MaxRead == 3
Reads == UNION {[1 .. n -> Bytes] : n \in 1 .. MaxRead}

NextFraming ==
    \E data \in Reads :
        /\ Len(stream) + Len(data) <= MaxStream
        /\ housedcc_pidcc_receive(data, TRUE)

SpecFraming == Init /\ [][NextFraming]_vars

\* The functions of one vehicle, set and cleared by name: two functions in
\* each of the three groups, one of index 14, one of index 0 and one
\* declared without an index.
GroupFunctions ==
    <<[name |-> "F1", indexed |-> TRUE, index |-> 1],
      [name |-> "Light", indexed |-> TRUE, index |-> 13],
      [name |-> "F5", indexed |-> TRUE, index |-> 5],
      [name |-> "F8", indexed |-> TRUE, index |-> 8],
      [name |-> "F9", indexed |-> TRUE, index |-> 9],
      [name |-> "F12", indexed |-> TRUE, index |-> 12],
      [name |-> "Horn", indexed |-> TRUE, index |-> 14],
      [name |-> "Aux", indexed |-> TRUE, index |-> 0],
      [name |-> "Bell", indexed |-> FALSE, index |-> 0]>>
FunctionNames == {GroupFunctions[i].name : i \in 1 .. Len(GroupFunctions)}

NextFunctions ==
    \/ housedcc_fleet_declare("E8", "engine", GroupFunctions)
    \/ housedcc_fleet_add("A", "E8", 44)
    \/ \E name \in FunctionNames, state \in {0, 1} : FleetSet("A", name, state, "ok")
    \/ \E line \in {<<"#", "\n">>, <<"*", "\n">>} : housedcc_pidcc_receive(line, FALSE)
    \/ NextConfig({<<17, 18>>})

SpecFunctions == Init /\ [][NextFunctions]_vars

\* A vehicle whose model is deleted, and another model declared after it.
F7Functions == <<[name |-> "Bell", indexed |-> TRUE, index |-> 1]>>

NextModels ==
    \/ housedcc_fleet_declare("E8", "engine", FleetFunctions)
    \/ housedcc_fleet_declare("F7", "engine", F7Functions)
    \/ \E m \in {"E8", "F7"} : housedcc_fleet_add("A", m, 44)
    \/ \E id \in {"A", "E8", "F7"} : housedcc_fleet_delete(id)
    \/ \E name \in {"Light", "Bell"}, w \in WriteOutcomes : FleetSet("A", name, 1, w)
    \/ NextConfig({<<17, 18>>})

SpecModels == Init /\ [][NextModels]_vars

\* Models and vehicles declared, added and deleted, the registry being
\* exported and its status listed in between.
NextExport ==
    \/ housedcc_fleet_declare("E8", "engine", FleetFunctions)
    \/ housedcc_fleet_declare("F7", "car", F7Functions)
    \/ \E m \in {"", "E8"} : housedcc_fleet_add("A", m, 44)
    \/ housedcc_fleet_add("B", "F7", 45)
    \/ \E id \in {"A", "B", "E8", "F7"} : housedcc_fleet_delete(id)
    \/ FleetExport
    \/ FleetStatus

SpecExport == Init /\ [][NextExport]_vars

\* The readiness over time: what the worker sends, in whole lines, one of
\* them with no status character, one empty and one read of two lines, next
\* to the clock, the worker's exits, the periodic function and every command.
ReadinessReads == StatusLines \cup {<<"x", "\n">>, <<"\n">>, <<"$", "\n", "%", "\n">>}

NextReadiness ==
    \/ Tick
    \/ WorkerExit
    \/ \E data \in ReadinessReads : housedcc_pidcc_receive(data, FALSE)
    \/ NextPeriodic
    \/ housedcc_pidcc_config(17, 18, "ok")
    \/ CallMove(44, -20, "ok")
    \/ CallStop(0, 1, "ok")
    \/ CallFunction(44, 144, "ok")
    \/ CallAccessory(63, 3, 1, "ok")

SpecReadiness == Init /\ [][NextReadiness]_vars

\* The worker replaced: it sends a status character without the end of its
\* line, or a whole line, and exits; the periodic function reaps it and
\* launches its replacement.
NextRelaunch ==
    \/ Tick
    \/ WorkerExit
    \/ NextPeriodic
    \/ /\ PiDccBufferProducer = 0
       /\ housedcc_pidcc_receive(<<"*">>, FALSE)
    \/ housedcc_pidcc_receive(<<"#", "\n">>, FALSE)

SpecRelaunch == Init /\ [][NextRelaunch]_vars

\* The supervision for ever.  The main loop's clock is counted modulo 5,
\* which is all housedcc_pidcc_periodic reads of it while no status line
\* arrives, and the periodic function runs once in every second.
PeriodicRan == called.op = "periodic" /\ called.args = <<now>>

SecondPasses ==
    /\ PeriodicRan
    /\ now' = (now + 1) % 5
    /\ UNCHANGED <<pidccVars, bufferVars, processVars, fleetVars, historyVars, worker,
                   DccLatest, callVars>>

SupervisionRuns(o) ==
    /\ ~PeriodicRan
    /\ housedcc_pidcc_periodic(o)

NextHealing ==
    \/ SecondPasses
    \/ WorkerExit
    \/ \E o \in LaunchResults : SupervisionRuns(o)

\* The seconds pass and the periodic function runs (the main loop never
\* stops), and pipe() and fork() do not fail for ever: a launch that can
\* succeed again and again does succeed.
SpecHealing ==
    /\ Init
    /\ [][NextHealing]_vars
    /\ WF_vars(SecondPasses)
    /\ WF_vars(\E o \in LaunchResults : SupervisionRuns(o))
    /\ SF_vars(SupervisionRuns("ok"))

\* The receive buffer filled: the worker sends bytes that end no line, by
\* the hundred or as many as the read asks for, and line ends and status
\* lines between them; a read can also return nothing.
Fill(n) == [i \in 1 .. n |-> "x"]
BufferReads ==
    {<<>>, <<"\n">>, <<"#", "\n">>, Fill(100), Fill(500), Fill(receive_room)}

\* A status line and the first byte of the next line come in one read (into
\* the empty buffer), so that the consumer stands inside the buffer.
NextBuffer ==
    \/ \E data \in BufferReads : housedcc_pidcc_receive(data, FALSE)
    \/ /\ PiDccBufferProducer = 0
       /\ housedcc_pidcc_receive(<<"#", "\n", "x">>, FALSE)

SpecBuffer == Init /\ [][NextBuffer]_vars

\* Three vehicles and two models created and deleted, each vehicle at its
\* own address, the third also at the address of the first.
SlotIds == {"A", "B", "C"}
SlotModels == {"E8", "F7"}
SlotVehicles == {<<"A", 1>>, <<"B", 2>>, <<"C", 3>>, <<"C", 1>>}

NextSlots ==
    \/ \E m \in SlotModels : housedcc_fleet_declare(m, "engine", <<>>)
    \/ \E v \in SlotVehicles : housedcc_fleet_add(v[1], "", v[2])
    \/ \E id \in SlotIds \cup SlotModels : housedcc_fleet_delete(id)

SpecSlots == Init /\ [][NextSlots]_vars

\* Two vehicles added, deleted and driven by name, the empty name among
\* the names given.
NextTombs ==
    \/ housedcc_pidcc_config(17, 18, "ok")
    \/ \E v \in {<<"A", 44>>, <<"B", 45>>} : housedcc_fleet_add(v[1], "", v[2])
    \/ \E id \in {"A", "B"} : housedcc_fleet_delete(id)
    \/ \E id \in {"A", "B", ""} : FleetMove(id, -20, "ok")
    \/ \E id \in {"A", "B", ""} : FleetStop(id, 0, "ok")

SpecTombs == Init /\ [][NextTombs]_vars

NextExportReload ==
    \E reads \in VehicleReads :
        LET cfg == exported_configuration(housedcc_fleet_export(reads))
        IN \E g \in [1 .. Len(cfg.models) -> GarbageDevices(cfg)] :
              ExportThenReload(reads, g)

\* The registry built through housedcc_fleet.h, every function index
\* positive, then exported and loaded from its own export.
NextRoundTrip ==
    \/ \E m \in {"E8", "F7"}, f \in FunctionLists : housedcc_fleet_declare(m, "engine", f)
    \/ \E v \in {<<"A", "E8", 1>>, <<"B", "", 2>>} : housedcc_fleet_add(v[1], v[2], v[3])
    \/ \E id \in {"A", "F7"} : housedcc_fleet_delete(id)
    \/ NextExportReload

SpecRoundTrip == Init /\ [][NextRoundTrip]_vars

\* The commands at the ends of the ranges they accept: every device of
\* the four bits housedcc_pidcc_accessory keeps, at the lowest and highest
\* addresses of each field.
NextOperands ==
    \/ housedcc_pidcc_config(17, 18, "ok")
    \/ \E a \in {1, 127}, s \in {-28, 0, 28} : CallMove(a, s, "ok")
    \/ \E a \in {0, 127}, e \in {0, 1} : CallStop(a, e, "ok")
    \/ \E a \in {-1, 0, 127}, i \in {128, 191} : CallFunction(a, i, "ok")
    \/ \E a \in {-1, 0, 63, 64, 511}, d \in {0, 7, 8, 15}, v \in {0, 1} :
          CallAccessory(a, d, v, "ok")

SpecOperands == Init /\ [][NextOperands]_vars

----
\* The claims.

Live(v) == v.id # ""

\* The line "send <a> <b>" written to the transmit pipe.
Sent(a, b) == <<[fd |-> PiDccTransmit, text |-> [cmd |-> "send", a |-> a, b |-> b]]>>

\* C1: with pins configured and a write that succeeds, a stop for any
\* address 0..127 (0: all) writes "send <address> <0x40 + emergency>" and
\* returns success, whatever the readiness state, QueueFull included.
StopNeverGated ==
    (/\ called.op = "stop"
     /\ called.args[1] \in 0 .. 127
     /\ housedcc_pidcc_enabled
     /\ called.io = "ok")
        => /\ returned = 1
           /\ written = Sent(called.args[1], 64 + called.args[2])

StopSentWhileQueueFull ==
    /\ called.op = "stop"
    /\ called.args = <<0, 1>>
    /\ PiDccState = "*"
    /\ housedcc_pidcc_enabled
    /\ called.io = "ok"
    /\ returned = 1
    /\ written = Sent(0, 65)

ValidCommand ==
    \/ called.op = "move" /\ called.args[1] \in 1 .. 127 /\ abs(called.args[2]) <= 28
    \/ called.op = "function" /\ called.args[1] < 128
    \/ called.op = "accessory" /\ called.args[1] < 512

\* C2: while readiness is QueueFull a move, function or accessory command
\* returns failure and writes nothing; in the other readiness states
\* (initial, idle, busy) a valid command, with pins configured and a write
\* that succeeds, is sent and returns success.
QueueFullGatesCommands ==
    called.op \in {"move", "function", "accessory"}
        => /\ PiDccState = "*" => returned = 0 /\ written = <<>>
           /\ (PiDccState # "*" /\ ValidCommand /\ housedcc_pidcc_enabled
                  /\ called.io = "ok")
                 => returned = 1 /\ Len(written) = 1

MoveRefusedWhileQueueFull ==
    /\ called.op = "move"
    /\ ValidCommand
    /\ PiDccState = "*"
    /\ housedcc_pidcc_enabled
    /\ called.io = "ok"
    /\ returned = 0
    /\ written = <<>>

APeriodicStep == \E o \in LaunchResults : housedcc_pidcc_periodic(o)

\* C3: once a "*" line was decoded at time t (the deadline is t + 3) and no
\* other status line came, a move fails and sends nothing, and the periodic
\* check run at time t + 3 turns the readiness to idle.
QueueFullRevertsAtDeadline ==
    [][/\ (called'.op = "move" /\ PiDccState = "*")
            => (returned' = 0 /\ written' = <<>>)
       /\ (APeriodicStep /\ PiDccState = "*" /\ now = PiDccStateDeadline)
            => PiDccState' = "#"]_vars

\* C4: once a "%" line was decoded at time t (the deadline is t + 3) and no
\* other status line came, the periodic check turns the readiness to idle
\* when it runs at a time >= t + 3.
BusyRevertsAtDeadline ==
    [][(APeriodicStep /\ PiDccState = "%" /\ now >= PiDccStateDeadline)
            => PiDccState' = "#"]_vars

\* Whether the vehicle id is live at address a in table.
HoldsAddress(table, id, a) ==
    \E i \in 1 .. Len(table) : table[i].id = id /\ table[i].address = a

\* Whether a live vehicle other than id holds address a.
HeldByOther(id, a) ==
    \E i \in 1 .. Len(Vehicles) :
        Live(Vehicles[i]) /\ Vehicles[i].id # id /\ Vehicles[i].address = a

\* C7: in a registry built by add and delete, add (id, model, a) for a in
\* 1..127 leaves the vehicle id with the address a if and only if no live
\* vehicle with another id holds a.
AddIffAddressFree ==
    [][\A id \in Ids, m \in ModelNames \cup {""}, a \in 1 .. 127 :
          housedcc_fleet_add(id, m, a)
              => (HoldsAddress(Vehicles', id, a) <=> ~HeldByOther(id, a))]_vars

\* C8: no two live vehicles hold the same address.
NoSharedAddress ==
    \A i, j \in 1 .. Len(Vehicles) :
        (i # j /\ Live(Vehicles[i]) /\ Live(Vehicles[j]))
            => Vehicles[i].address # Vehicles[j].address

\* C5: every background tick of the main loop does what
\* housedcc_pidcc_periodic does at that time (the deadline check, and the
\* supervision of the worker when the time is a multiple of 5).
BackgroundDrivesPeriodic ==
    [][dcc_background => \E o \in LaunchResults : periodic_effect(now, o)]_vars

\* The lines of a byte stream: its maximal non-empty runs of bytes other
\* than "\n" and "\r" that a "\n" or "\r" ends.
RECURSIVE LinesOf(_, _)
LinesOf(bytes, run) ==
    IF bytes = <<>> THEN <<>>
    ELSE IF Head(bytes) \in {"\n", "\r"}
    THEN (IF run = <<>> THEN <<>> ELSE <<run>>) \o LinesOf(Tail(bytes), <<>>)
    ELSE LinesOf(Tail(bytes), Append(run, Head(bytes)))

\* The readiness that a sequence of lines leaves.
RECURSIVE ReadinessOf(_)
ReadinessOf(lines) ==
    IF lines = <<>> THEN NUL
    ELSE IF lines[Len(lines)][1] \in {"#", "%", "*"} THEN lines[Len(lines)][1]
    ELSE ReadinessOf(SubSeq(lines, 1, Len(lines) - 1))

\* C6: the lines handed to the decoder are the lines of the stream read so
\* far, each from its first character, and the readiness is the one that
\* the last "#", "%" or "*" line implies.
FramingExact ==
    /\ decoded = LinesOf(stream, <<>>)
    /\ PiDccState = ReadinessOf(LinesOf(stream, <<>>))

\* C9: a move or a function set on a named vehicle that returns failure
\* leaves the registry as it was.
FailureLeavesRegistry ==
    [][(called'.op \in {"fleet_move", "fleet_set"} /\ returned' = 0)
            => Vehicles' = Vehicles]_vars

\* The step that the 5-bit field code stands for.
InverseCode(code) == CHOOSE s \in 0 .. 28 : speed2cssss[s + 1] = code

\* byte = 0x40 | (0x20 if s > 0) | code(|s|)
MoveByteOf(s) == BitOr(BitOr(64, IF s > 0 THEN 32 ELSE 0), speed2cssss[abs(s) + 1])

TheVehicle(id) == Vehicles[housedcc_fleet_find(id) + 1]

Bit(mask, i) == (mask \div (2 ^ (i - 1))) % 2

\* The mask with the function of index i turned on or off.
WithBit(mask, i, state) ==
    IF state # 0 THEN mask + (1 - Bit(mask, i)) * (2 ^ (i - 1))
    ELSE mask - Bit(mask, i) * (2 ^ (i - 1))

\* The four functions from index i on, as the low 4 bits of a byte.
FourBits(mask, i) ==
    Bit(mask, i) + 2 * Bit(mask, i + 1) + 4 * Bit(mask, i + 2) + 8 * Bit(mask, i + 3)

\* The instruction byte of the group of the function of index i.
GroupByte(mask, i) ==
    IF i \in (1 .. 4) \cup {13} THEN 128 + FourBits(mask, 1) + 16 * Bit(mask, 13)
    ELSE IF i \in 5 .. 8 THEN 176 + FourBits(mask, 5)
    ELSE 160 + FourBits(mask, 9)

\* Whether the vehicle has a model, one that was not freed since.
HasModel(v) == v.model # NullModel /\ ~v.model.dangling

\* The index that the model of the vehicle gives the function name; 99
\* when the vehicle has no model or the model no such function.
IndexOfFunction(v, name) ==
    IF ~HasModel(v) THEN 99
    ELSE LET functions == Models[v.model.slot + 1].functions
             k == FirstIndex(functions, "name", name)
         IN IF k < 0 THEN 99 ELSE functions[k + 1].index

\* C11: a function set on a vehicle whose model gives the name an index i
\* in 1..13 turns bit i of the vehicle's mask on or off and leaves the
\* other bits; with readiness not QueueFull, pins configured and a write
\* that succeeds it sends "send <address> <byte>", the byte being that of
\* the group of i built from the whole mask.
SetEncoding ==
    [][(called'.op = "fleet_set" /\ housedcc_fleet_find(called'.args[1]) >= 0)
         => LET cursor == housedcc_fleet_find(called'.args[1])
                v == Vehicles[cursor + 1]
                i == IndexOfFunction(v, called'.args[2])
                mask == Vehicles'[cursor + 1].functions
            IN i \in 1 .. 13
                 => /\ mask = WithBit(v.functions, i, called'.args[3])
                    /\ (PiDccState # "*" /\ housedcc_pidcc_enabled /\ called'.io = "ok")
                          => /\ returned' = 1
                             /\ written' = Sent(v.address, GroupByte(mask, i))]_vars

SetSentWithGroup ==
    /\ called.op = "fleet_set"
    /\ called.args = <<"A", "Light", 1>>
    /\ returned = 1
    /\ written = Sent(44, 145)

\* C12: a function set on a function whose index is not in 1..13 returns
\* failure and sends nothing, for every vehicle and state.
UnassignedFunctionFails ==
    (/\ called.op = "fleet_set"
     /\ housedcc_fleet_find(called.args[1]) >= 0
     /\ HasModel(TheVehicle(called.args[1]))
     /\ IndexOfFunction(TheVehicle(called.args[1]), called.args[2]) \notin 1 .. 13)
        => returned = 0 /\ written = <<>>

\* C13: an accessory command for an address 0..511 (readiness not
\* QueueFull, pins configured, the write succeeding) sends as first operand
\* 0x80 | (address & 0x3f) and as second operand 0x80, the ones-complement
\* of the address bits 6..8 in bits 4..6, 0x08 when on, and the device; an
\* address >= 512 returns failure and sends nothing.
AccessoryEncoding ==
    called.op = "accessory"
        => LET address == called.args[1]
               device == called.args[2]
               value == called.args[3]
           IN IF address >= 512 THEN returned = 0 /\ written = <<>>
              ELSE (address >= 0 /\ PiDccState # "*" /\ housedcc_pidcc_enabled
                       /\ called.io = "ok")
                     => /\ returned = 1
                        /\ written = Sent(128 + (address % 64),
                                          128 + 16 * (7 - ((address \div 64) % 8))
                                              + (IF value # 0 THEN 8 ELSE 0) + device)

\* C14: adding a vehicle id that exists leaves its speed and its functions
\* as they were.
UpdateKeepsSpeedAndFunctions ==
    [][(called'.op = "add" /\ housedcc_fleet_find(called'.args[1]) >= 0)
         => LET cursor == housedcc_fleet_find(called'.args[1])
            IN /\ Vehicles'[cursor + 1].speed = Vehicles[cursor + 1].speed
               /\ Vehicles'[cursor + 1].functions = Vehicles[cursor + 1].functions]_vars

\* Whether the model that the vehicle was given has been deleted.
ModelDeleted(v) == HasModel(v) /\ Models[v.model.slot + 1].name = ""

\* C15: a function set on a vehicle whose model has been deleted returns
\* failure and sends nothing, and declaring a model does not give a model
\* to a vehicle whose model has been deleted.
DeletedModelIsNoModel ==
    [][/\ (called'.op = "fleet_set" /\ housedcc_fleet_find(called'.args[1]) >= 0
              /\ ModelDeleted(Vehicles[housedcc_fleet_find(called'.args[1]) + 1]))
            => (returned' = 0 /\ written' = <<>>)
       /\ called'.op = "declare"
            => \A i \in 1 .. Len(Vehicles) :
                  (Live(Vehicles[i]) /\ ModelDeleted(Vehicles[i]))
                      => Models'[Vehicles[i].model.slot + 1].name = ""]_vars

\* A move command of the transport, whatever its inputs.
AMoveStep ==
    \E a \in Addresses, s \in Speeds, w \in WriteOutcomes : CallMove(a, s, w)

\* C16: a move issued while the worker process has exited, before the
\* periodic function has replaced it, returns failure.
MoveFailsWithoutWorker ==
    [][(AMoveStep /\ PiDccProcess \in zombies) => returned' = 0]_vars

\* C17: a "send" line is written to a worker that replaces another only
\* after a "pin" line was written to it.
PinResentBeforeSend ==
    (worker.replacement /\ written # <<>> /\ written[1].text.cmd = "send"
        /\ written[1].fd = PiDccTransmit)
        => worker.pinned

\* C18: a move or set request that names a vehicle is answered 404 only
\* when no vehicle has the identifier.
NotFoundOnlyWhenUnknown ==
    (called.op \in {"dcc_move", "dcc_set"} /\ ~null_of(called.args[1]) /\ returned = 404)
        => housedcc_fleet_find(text_of(called.args[1])) < 0

\* What the status and the configuration report: the pins, the models,
\* and the vehicles with their speed and functions.
Reported ==
    <<GpioPinA, GpioPinB,
      {Models[i] : i \in {j \in 1 .. Len(Models) : Models[j].name # ""}},
      {[id |-> Vehicles[i].id, address |-> Vehicles[i].address,
        speed |-> Vehicles[i].speed, functions |-> Vehicles[i].functions] :
          i \in {j \in 1 .. Len(Vehicles) : Live(Vehicles[j])}}>>

\* C19: once the latest-change ID is set, a step that changes what the
\* status or the configuration reports changes the ID.
LatestTracksChanges ==
    [][(DccLatest # 0 /\ Reported' # Reported) => DccLatest' # DccLatest]_vars

\* C20: every call housedcc_pidcc_config (a, b), the write succeeding,
\* writes the line "pin <a> <b>" to the worker.
ConfigForwarded ==
    (called.op = "config" /\ called.io = "ok")
        => written = <<[fd |-> PiDccTransmit,
                        text |-> [cmd |-> "pin", a |-> called.args[1],
                                  b |-> called.args[2]]]>>

\* C21: a command whose write is short or fails returns failure, and a
\* command that returns success has written its whole line.
ShortWriteFails ==
    called.op \in {"move", "stop", "function", "accessory"}
        => /\ called.io \in {"short", "fail"} => returned = 0
           /\ returned # 0 => (written # <<>> /\ written[1].text.cmd # "short")

\* The line that a command asks for.
LineOf(c) ==
    CASE c.op = "config" -> [cmd |-> "pin", a |-> c.args[1], b |-> c.args[2]]
      [] c.op = "move" ->
             [cmd |-> "send", a |-> c.args[1] % 128, b |-> MoveByteOf(c.args[2])]
      [] c.op = "stop" ->
             [cmd |-> "send", a |-> c.args[1] % 128,
              b |-> 64 + (IF c.args[2] # 0 THEN 1 ELSE 0)]
      [] c.op = "function" -> [cmd |-> "send", a |-> c.args[1] % 128, b |-> c.args[2]]
      [] c.op = "accessory" ->
             [cmd |-> "send", a |-> 128 + (c.args[1] % 64),
              b |-> 128 + accessory_high(c.args[1]) + (IF c.args[3] # 0 THEN 8 ELSE 0)
                        + (c.args[2] % 16)]

\* C22: the lines written so far are the lines of the commands accepted so
\* far, one each, in the order of the calls.
OrderKept ==
    /\ Len(sent) = Len(accepted)
    /\ \A i \in 1 .. Len(sent) : sent[i].text = LineOf(accepted[i])

\* Three commands were accepted, a move after a stop among them.
OrderOfThree ==
    /\ Len(accepted) = 3
    /\ accepted[1].op = "config"
    /\ accepted[2].op = "stop"
    /\ accepted[3].op = "move"
    /\ Len(sent) = 3

\* C23: deleting the id of a vehicle leaves no vehicle found under that
\* id, and leaves every other vehicle and every model as they were.
DeleteRemovesVehicle ==
    [][(called'.op = "delete" /\ housedcc_fleet_find(called'.args[1]) >= 0)
          => /\ FirstIndex(Vehicles', "id", called'.args[1]) < 0
             /\ Models' = Models
             /\ Len(Vehicles') = Len(Vehicles)
             /\ \A i \in 1 .. Len(Vehicles) :
                   i # housedcc_fleet_find(called'.args[1]) + 1
                       => Vehicles'[i] = Vehicles[i]]_vars

\* C24: a delete of a name that a live vehicle and a live model share
\* clears the vehicle and leaves the models as they were, and a delete
\* changes the models only when no live vehicle has the name.
SharedNameDeletesVehicle ==
    [][called'.op = "delete"
          => LET id == called'.args[1]
                 cursor == housedcc_fleet_find(id)
             IN /\ (cursor >= 0 /\ housedcc_fleet_find_model(id) >= 0)
                      => (Vehicles'[cursor + 1].id = "" /\ Models' = Models)
                /\ Models' # Models => cursor < 0]_vars

\* The vehicle A has just been deleted and the model A is still declared.
VehicleGoneModelKept ==
    /\ called.op = "delete"
    /\ called.args = <<"A">>
    /\ housedcc_fleet_find("A") < 0
    /\ housedcc_fleet_find_model("A") >= 0
    /\ \E i \in 1 .. Len(Vehicles) : Vehicles[i].id = ""

\* What the registry records of the vehicles, their models apart.
VehiclesRecorded(table) ==
    [i \in 1 .. Len(table) |->
        [id |-> table[i].id, address |-> table[i].address,
         speed |-> table[i].speed, functions |-> table[i].functions]]

\* C25: declaring a model under a name that a model has keeps the model in
\* its slot and the number of slots, gives it the new kind and the new
\* functions (the first FUNCTION_MAX of them), and leaves the other models
\* and the id, address, speed and functions of every vehicle as they were.
RedeclareInPlace ==
    [][(called'.op = "declare" /\ housedcc_fleet_find_model(called'.args[1]) >= 0)
          => LET cursor == housedcc_fleet_find_model(called'.args[1])
                 given == called'.args[3]
                 count == IF Len(given) > 16 THEN 16 ELSE Len(given)
                 kind == IF called'.args[2] = "engine" THEN 2
                         ELSE IF called'.args[2] = "car" THEN 1 ELSE 0
             IN /\ Len(Models') = Len(Models)
                /\ \A i \in 1 .. Len(Models) : i # cursor + 1 => Models'[i] = Models[i]
                /\ Models'[cursor + 1].name = called'.args[1]
                /\ Models'[cursor + 1].type = kind
                /\ Models'[cursor + 1].count = count
                /\ Len(Models'[cursor + 1].functions) = count
                /\ \A i \in 1 .. count :
                      /\ Models'[cursor + 1].functions[i].name = given[i].name
                      /\ given[i].indexed
                            => Models'[cursor + 1].functions[i].index = given[i].index
                /\ VehiclesRecorded(Vehicles') = VehiclesRecorded(Vehicles)]_vars

\* The model E8 of a moving vehicle has just been declared again with
\* FUNCTION_MAX + 1 functions.
RedeclaredLong ==
    /\ called.op = "declare"
    /\ called.args[1] = "E8"
    /\ Len(called.args[3]) = 17
    /\ \E i \in 1 .. Len(Vehicles) :
          /\ Vehicles[i].id = "A"
          /\ Vehicles[i].speed = -20
          /\ Vehicles[i].model.slot = housedcc_fleet_find_model("E8")
    /\ Models[housedcc_fleet_find_model("E8") + 1].count = 16

\* The names of the models declared and not deleted.
LiveModelNames == {Models[i].name : i \in 1 .. Len(Models)} \ {""}

\* C26: the export lists the live models and the live vehicles, one item
\* each, the status the live vehicles, and a vehicle's item names no model
\* or the name of a live model.
EmitsOnlyLive ==
    called.op \in {"fleet_export", "fleet_status"}
        => LET items == written[1].buffer.vehicles
           IN /\ Len(items) = Cardinality({i \in 1 .. Len(Vehicles) : Live(Vehicles[i])})
              /\ \A i \in 1 .. Len(items) :
                    /\ items[i].id # ""
                    /\ items[i].model = <<>> \/ items[i].model[1] \in LiveModelNames
              /\ called.op = "fleet_export"
                    => /\ Len(written[1].buffer.models)
                             = Cardinality({i \in 1 .. Len(Models) : Models[i].name # ""})
                       /\ \A i \in 1 .. Len(written[1].buffer.models) :
                             written[1].buffer.models[i].name \in LiveModelNames

\* C27: at most one child process is running or waiting to be reaped, and
\* the periodic function comes to a launch only when the worker it recorded
\* is not running.
OneWorker ==
    /\ [](Cardinality(running \cup zombies) <= 1)
    /\ [][\A o \in LaunchResults \ {"none"} :
               housedcc_pidcc_periodic(o) => PiDccProcess \notin running]_vars

\* The periodic function has just launched a worker.
WorkerRelaunched ==
    /\ called.op = "periodic"
    /\ called.io = "ok"
    /\ running = {PiDccProcess}
    /\ zombies = {}

\* The lines a read of data hands to the decoder.
DecodedLines(data) == receive_result(data).lines

\* C28: the readiness or its deadline changes only in a receive that decodes
\* a line beginning with '#', '%' or '*', or in a periodic call that finds
\* '*' past its deadline; every other line and every command, pin
\* configuration and launch leave both as they were.
ReadinessFrame ==
    [][(PiDccState' # PiDccState \/ PiDccStateDeadline' # PiDccStateDeadline)
          => \/ \E data \in ReadinessReads :
                   /\ housedcc_pidcc_receive(data, FALSE)
                   /\ \E i \in 1 .. Len(DecodedLines(data)) :
                          /\ DecodedLines(data)[i] # <<>>
                          /\ DecodedLines(data)[i][1] \in {"#", "%", "*"}
             \/ /\ \E o \in LaunchResults : housedcc_pidcc_periodic(o)
                /\ PiDccState = "*"
                /\ PiDccStateDeadline < now
                /\ PiDccState' = "#"
                /\ PiDccStateDeadline' = PiDccStateDeadline]_vars

\* The line "!" was decoded while the readiness was '%': it still is.
AlertKeepsBusy ==
    /\ called.op = "receive"
    /\ called.args = <<(<<"!", "\n">>)>>
    /\ PiDccState = "%"
    /\ PiDccStateDeadline > 0

\* C29: once the periodic function launched a worker, and until the first
\* read from it, the receive buffer is empty: nothing of the worker before
\* is joined to the first line of the new one.
FreshBufferAtLaunch ==
    (called.op = "periodic" /\ called.io = "ok")
        => (PiDccBufferConsumer = 0 /\ PiDccBufferProducer = 0)

\* C30: whenever no worker runs (it exited, or a launch failed), a worker
\* eventually runs again.
SelfHealing == (PiDccProcess \notin running) ~> (PiDccProcess \in running)

\* C31: after every call of the receive handler the buffer has room for at
\* least one more byte.
RoomAfterReceive == receive_room >= 1

\* C37: the consumer and the producer stay in order and inside the buffer,
\* the NUL written at the producer's index included.
BufferBounds ==
    /\ 0 <= PiDccBufferConsumer
    /\ PiDccBufferConsumer <= PiDccBufferProducer
    /\ PiDccBufferProducer <= PiDccBufferSize - 1
    /\ Len(PiDccBuffer) <= PiDccBufferProducer

\* The buffer was filled up to its last byte but one.
BufferBrimful ==
    /\ called.op = "receive"
    /\ PiDccBufferProducer = PiDccBufferSize - 1
    /\ Len(PiDccBuffer) = PiDccBufferSize - 1

\* C32: after a reload the model table holds exactly the models the
\* configuration lists and the vehicle table exactly its vehicles, also
\* when it lists none.
ReloadReplaces ==
    called.op = "reload"
        => LET cfg == called.args[1]
           IN /\ [i \in 1 .. Len(Models) |-> Models[i].name]
                     = [i \in 1 .. Len(cfg.models) |-> cfg.models[i].name]
              /\ [i \in 1 .. Len(Vehicles) |-> Vehicles[i].id]
                     = [i \in 1 .. Len(cfg.vehicles) |-> cfg.vehicles[i].id]

\* The deleted slots of a table (from 1), and what a table becomes when
\* the entry named name is created in it: in its lowest deleted slot, the
\* number of slots unchanged, or in one more slot when none is deleted.
Tombstones(seq, field) == {i \in 1 .. Len(seq) : seq[i][field] = ""}

CreatedIn(old, new, field, name) ==
    IF Tombstones(old, field) # {}
    THEN /\ Len(new) = Len(old)
         /\ new[Min(Tombstones(old, field))][field] = name
         /\ \A i \in 1 .. Len(old) : i # Min(Tombstones(old, field)) => new[i] = old[i]
    ELSE /\ Len(new) = Len(old) + 1
         /\ new[Len(new)][field] = name
         /\ \A i \in 1 .. Len(old) : new[i] = old[i]

\* C33: a new vehicle or model takes the lowest deleted slot without a
\* change of the number of slots, which grows by one only when no slot is
\* deleted, and never decreases.
SlotReuse ==
    [][/\ \A v \in SlotVehicles :
             (/\ housedcc_fleet_add(v[1], "", v[2])
              /\ housedcc_fleet_find(v[1]) < 0
              /\ ~add_conflict(v[1], v[2]))
                 => CreatedIn(Vehicles, Vehicles', "id", v[1])
       /\ \A m \in SlotModels :
             (housedcc_fleet_declare(m, "engine", <<>>) /\ housedcc_fleet_find_model(m) < 0)
                 => CreatedIn(Models, Models', "name", m)
       /\ Len(Vehicles') >= Len(Vehicles)
       /\ Len(Models') >= Len(Models)]_vars

\* The vehicle C was created in the first of two deleted slots, and the
\* model F7 in the deleted slot of E8.
LowestSlotTaken ==
    /\ Len(Vehicles) = 2
    /\ Vehicles[1].id = "C"
    /\ Vehicles[2].id = ""
    /\ Len(Models) = 1
    /\ Models[1].name = "F7"

\* C34: a move or a stop by name that sent a command sent it to the address
\* of a live vehicle of that name.
LookupsFindLive ==
    (called.op \in {"fleet_move", "fleet_stop"} /\ written # <<>>)
        => \E i \in 1 .. Len(Vehicles) :
              /\ Vehicles[i].id # ""
              /\ Vehicles[i].id = called.args[1]
              /\ written[1].text.a = Vehicles[i].address

\* C35: the model pointer of every vehicle is 0 or designates a slot of the
\* model table now in place.
ModelPointersValid ==
    \A i \in 1 .. Len(Vehicles) :
        \/ Vehicles[i].model = NullModel
        \/ /\ ~Vehicles[i].model.dangling
           /\ Vehicles[i].model.slot < Len(Models)

\* The live models of a table with their functions in order, and the live
\* vehicles of a table with the name of their model in mt ("" for none).
IsLiveModel(m) == m.name # ""
IsLiveVehicle(v) == v.id # ""
LiveModelsOf(mt) ==
    LET live == SelectSeq(mt, IsLiveModel)
    IN [i \in 1 .. Len(live) |-> [name |-> live[i].name, functions |-> live[i].functions]]
LiveVehiclesOf(vt, mt) ==
    LET live == SelectSeq(vt, IsLiveVehicle)
    IN [i \in 1 .. Len(live) |->
           [id |-> live[i].id, address |-> live[i].address,
            model |-> IF live[i].model = NullModel THEN ""
                      ELSE mt[live[i].model.slot + 1].name]]

\* C36: the registry loaded from its own export has the same live models
\* with the same functions in the same order, and the same live vehicles
\* with the same id, address and model name.
RoundTripSame ==
    [][NextExportReload
          => /\ LiveModelsOf(Models') = LiveModelsOf(Models)
             /\ LiveVehiclesOf(Vehicles', Models') = LiveVehiclesOf(Vehicles, Models)]_vars

\* C38: the descriptors the service holds open are the two pipe ends of the
\* worker it recorded, and none when it recorded no worker.
OnlyWorkerPipesOpen ==
    openfds = (IF PiDccProcess > 0 THEN {PiDccTransmit, PiDccListen} ELSE {})

\* C39: the two operands of every send line written are in 0 .. 255.
OperandsAreBytes ==
    \A i \in 1 .. Len(written) :
        ("text" \in DOMAIN written[i] /\ written[i].text.cmd = "send")
            => /\ written[i].text.a \in 0 .. 255
               /\ written[i].text.b \in 0 .. 255

\* C40: the speed field of the byte a move sends is never 0x01, 0x11 or
\* 0x10, and of move and stop only a stop with emergency set sends 0x41.
MoveNeverEmergency ==
    /\ (called.op = "move" /\ written # <<>>)
           => /\ LowBits(written[1].text.b, 31) \notin {1, 17, 16}
              /\ written[1].text.b # 65
    /\ (called.op = "stop" /\ written # <<>> /\ written[1].text.b = 65)
           => called.args[2] # 0

\* A move at the first speed step, whose code 0x02 is next to the
\* emergency stop's.
FirstStepMoved ==
    /\ called.op = "move"
    /\ called.args[2] = -1
    /\ written # <<>>
    /\ written[1].text.b = 66

====
